---- MODULE Spec2Model ----
(***************************************************************************)
(* Model of github.com/alexcesaro/mail: the quoted-printable codec, the     *)
(* RFC 2047 header-word encoder and decoder, the streaming encoder and      *)
(* decoder, the line-length writers and the multipart assembler (Export).   *)
(*                                                                          *)
(* Bytes are integers 0..255, byte slices and strings are sequences of      *)
(* bytes.  Go indexes from 0: At(s, i) is s[i].                             *)
(***************************************************************************)
EXTENDS Integers, Sequences, FiniteSets, TLC

VARIABLES
    pc,       \* position of the driver of the component under check
    src,      \* codec: the input given to Encode / Decode
    enc,      \* codec: result of Encode(src)
    dec,      \* codec: result of Decode, [out, err, from, pos]
    hcfg,     \* header codec: the arguments [charset, enc], then the HeaderEncoder
    hin,      \* header codec: the string given to EncodeHeader
    hout,     \* header codec: result of EncodeHeader(hin)
    hdec,     \* header codec: result of DecodeHeader, [text, charset, err]
    htoks,    \* header codec: the pieces a header value given to DecodeHeader is made of
    ein,      \* streaming encoder: input the caller has still to write
    ew,       \* streaming encoder: bytes accepted so far by the downstream writer
    ecall,    \* streaming encoder: the last Write call, [p, n, err, k, fails]
    rsrc,     \* streaming decoder: the whole content of the underlying source
    q,        \* streaming decoder: the qpReader [br, term, line, eof, err]
    rd,       \* streaming decoder: history of the Read calls, [data, rets]
    msg,      \* gomail: the Message [header, parts, attachments, charset, encoding]
    w,        \* gomail: the messageWriter of the running Export
    res,      \* gomail: the running Export [k, out]; before it, Attach's error
    lw,       \* line writer: [kind, lineLen, out, ins, plen, n, panic]
    sd        \* mailer: the running Send [header, readErr, from, bcc, calls, k, err]

vars == <<pc, src, enc, dec, hcfg, hin, hout, hdec, htoks, ein, ew, ecall, rsrc, q, rd, msg, w, res, lw, sd>>

codecVars  == <<src, enc, dec>>
headerVars == <<hcfg, hin, hout, hdec, htoks>>
encVars    == <<ein, ew, ecall>>
readVars   == <<rsrc, q, rd>>
mailVars   == <<msg, w, res>>
lineVars   == <<lw>>
sendVars   == <<sd>>

----------------------------------------------------------------------------
(* Bytes the source names.                                                  *)
TAB == 9
LF == 10
CR == 13
SP == 32
EQ == 61
QM == 63
US == 95
TILDE == 126
BANG == 33
DOT == 46
SLASH == 47
LT == 60
GT == 62
AT == 64
COLON == 58
COMMA == 44

At(s, i) == s[i + 1]

\* s[a:b] of Go
Slice(s, a, b) == SubSeq(s, a + 1, b)

RECURSIVE Repeat(_, _)
Repeat(s, k) == IF k <= 0 THEN <<>> ELSE s \o Repeat(s, k - 1)

\* bytes.IndexByte(s[from:], c) + from, or -1 when c is absent
RECURSIVE IndexFrom(_, _, _)
IndexFrom(s, from, c) ==
    IF from >= Len(s) THEN -1
    ELSE IF At(s, from) = c THEN from
    ELSE IndexFrom(s, from + 1, c)

isVchar(c) == BANG <= c /\ c <= TILDE

isWSP(c) == c = SP \/ c = TAB

isNewline(c) == c = LF \/ c = CR

hextable == <<48, 49, 50, 51, 52, 53, 54, 55, 56, 57, 65, 66, 67, 68, 69, 70>>

encodeByte(b) == <<EQ, hextable[(b \div 16) + 1], hextable[(b % 16) + 1]>>

\* isLastChar with its first case only: the last byte of the input
isLastCharOfInput(i, s) == i = Len(s) - 1

isLastChar(i, s) ==
    \/ i = Len(s) - 1
    \/ (i < Len(s) - 1 /\ At(s, i + 1) = LF)
    \/ (i < Len(s) - 2 /\ At(s, i + 1) = CR /\ At(s, i + 2) = LF)

\* the bytes Encode writes for input byte i of s
EncodeUnit(s, i) ==
    LET c == At(s, i) IN
    IF c # EQ /\ (isVchar(c) \/ isNewline(c)) THEN <<c>>
    ELSE IF isWSP(c) THEN (IF isLastChar(i, s) THEN encodeByte(c) ELSE <<c>>)
    ELSE encodeByte(c)

RECURSIVE EncodeFrom(_, _)
EncodeFrom(s, i) ==
    IF i >= Len(s) THEN <<>> ELSE EncodeUnit(s, i) \o EncodeFrom(s, i + 1)

\* Encode(dst, src): the n bytes written to dst
Encode(s) == EncodeFrom(s, 0)

MaxEncodedLen(n) == 3 * n

----------------------------------------------------------------------------
(* Decode.  Errors are named after the value the code returns.              *)
NoErr == "nil"
ErrUnexpectedEOF == "io.ErrUnexpectedEOF"
ErrHexByte == "invalid quoted-printable hex byte"
ErrUnescaped == "invalid unescaped byte"
ErrAfterEq == "invalid bytes after ="

fromHexOkLower(b) == (48 <= b /\ b <= 57) \/ (65 <= b /\ b <= 70) \/ (97 <= b /\ b <= 102)

fromHexOk(b) == (48 <= b /\ b <= 57) \/ (65 <= b /\ b <= 70)

fromHex(b) == IF 48 <= b /\ b <= 57 THEN b - 48 ELSE b - 65 + 10

\* readHexByte(v) for v = s[i:], which holds at least two bytes
readHexByte(s, i) ==
    IF ~fromHexOk(At(s, i)) \/ ~fromHexOk(At(s, i + 1))
    THEN [b |-> 0, err |-> ErrHexByte]
    ELSE [b |-> (fromHex(At(s, i)) * 16 + fromHex(At(s, i + 1))) % 256, err |-> NoErr]

\* case c == '=' of Decode's switch, for the '=' at index i
DecodeEscapeShort(s, i) ==
    IF i + 1 >= Len(s) THEN [b |-> 0, err |-> ErrUnexpectedEOF]
    ELSE IF i + 2 >= Len(s) THEN [b |-> 0, err |-> ErrHexByte]
    ELSE readHexByte(s, i + 1)

DecodeEscape(s, i) ==
    IF i + 2 >= Len(s) THEN [b |-> 0, err |-> ErrUnexpectedEOF]
    ELSE readHexByte(s, i + 1)

\* the bytes the trim loop counts (case '\n', '\r', ' ', '\t')
isTrimmableNoTab(c) == c \in {LF, CR, SP}

isTrimmable(c) == c \in {LF, CR, SP, TAB}

\* the loop that counts the bytes to trim at the end of the line [i, eol)
RECURSIVE TrimLoop(_, _, _, _, _)
TrimLoop(s, i, eol, eolLen, trimLen) ==
    IF trimLen = eol - eolLen - i
    THEN [trimLen |-> trimLen, eolLen |-> eolLen, err |-> NoErr]
    ELSE LET c == At(s, eol - eolLen - trimLen - 1) IN
         IF isTrimmable(c)
         THEN TrimLoop(s, i, eol, eolLen, trimLen + 1)
         ELSE IF c = EQ
         THEN IF trimLen > 0
              THEN [trimLen |-> trimLen + eolLen + 1, eolLen |-> 0, err |-> ErrAfterEq]
              ELSE [trimLen |-> eolLen + 1, eolLen |-> 0, err |-> NoErr]
         ELSE [trimLen |-> trimLen, eolLen |-> eolLen, err |-> NoErr]

\* the state set at the start of a line (i = eol)
LineStart(s, i) ==
    LET k      == IndexFrom(s, i, LF)
        eol    == IF k = -1 THEN Len(s) ELSE k + 1
        eolLen == IF k = -1 THEN 0
                  ELSE IF eol - 2 >= i /\ At(s, eol - 2) = CR THEN 2 ELSE 1
        t      == TrimLoop(s, i, eol, eolLen, 0)
    IN [eol |-> eol, trimLen |-> t.trimLen, eolLen |-> t.eolLen, err |-> t.err]

\* One run of Decode's loop from index i.  dst is the output so far, from the
\* source index each output byte was decoded at (a history of the run).
RECURSIVE DecodeLoop(_, _, _, _, _)
DecodeLoop(s, i, st, dst, from) ==
    IF i >= Len(s) THEN [out |-> dst, err |-> NoErr, from |-> from, pos |-> Len(s)]
    ELSE
    LET ls == IF i = st.eol THEN LineStart(s, i) ELSE st
        c  == At(s, i)
    IN  IF ls.trimLen > 0 /\ i = ls.eol - ls.trimLen - ls.eolLen
        THEN IF ls.err # NoErr
             THEN [out |-> dst, err |-> ls.err, from |-> from, pos |-> i]
             ELSE DecodeLoop(s, i + ls.trimLen, ls, dst, from)
        ELSE IF c = EQ
        THEN LET h == DecodeEscape(s, i) IN
             IF h.err # NoErr
             THEN [out |-> dst, err |-> h.err, from |-> from, pos |-> i]
             ELSE DecodeLoop(s, i + 3, ls, Append(dst, h.b), Append(from, i))
        ELSE IF (c >= SP /\ c <= TILDE) \/ c = LF \/ c = CR \/ c = TAB
        THEN DecodeLoop(s, i + 1, ls, Append(dst, c), Append(from, i))
        ELSE [out |-> dst, err |-> ErrUnescaped, from |-> from, pos |-> i]

\* Decode(dst, src): dst[:n] and err
Decode(s) ==
    DecodeLoop(s, 0, [eol |-> 0, trimLen |-> 0, eolLen |-> 0, err |-> NoErr], <<>>, <<>>)

----------------------------------------------------------------------------
(* encoding/base64, StdEncoding.                                            *)
\* the character of the 6-bit value v
B64Char(v) ==
    IF v < 26 THEN 65 + v
    ELSE IF v < 52 THEN 97 + (v - 26)
    ELSE IF v < 62 THEN 48 + (v - 52)
    ELSE IF v = 62 THEN 43 ELSE 47

\* the 6-bit value of character c, -1 when c is not in the alphabet
B64Val(c) ==
    IF 65 <= c /\ c <= 90 THEN c - 65
    ELSE IF 97 <= c /\ c <= 122 THEN c - 97 + 26
    ELSE IF 48 <= c /\ c <= 57 THEN c - 48 + 52
    ELSE IF c = 43 THEN 62
    ELSE IF c = 47 THEN 63
    ELSE -1

\* base64.StdEncoding.EncodedLen(n)
B64EncodedLen(n) == ((n + 2) \div 3) * 4

\* base64.StdEncoding.EncodeToString(s[i:])
RECURSIVE B64EncodeFrom(_, _)
B64EncodeFrom(s, i) ==
    LET r  == Len(s) - i
        b0 == At(s, i)
        b1 == IF r >= 2 THEN At(s, i + 1) ELSE 0
        b2 == IF r >= 3 THEN At(s, i + 2) ELSE 0
        c0 == B64Char(b0 \div 4)
        c1 == B64Char((b0 % 4) * 16 + (b1 \div 16))
        c2 == B64Char((b1 % 16) * 4 + (b2 \div 64))
        c3 == B64Char(b2 % 64)
    IN IF r <= 0 THEN <<>>
       ELSE IF r = 1 THEN <<c0, c1, EQ, EQ>>
       ELSE IF r = 2 THEN <<c0, c1, c2, EQ>>
       ELSE <<c0, c1, c2, c3>> \o B64EncodeFrom(s, i + 3)

B64Encode(s) == B64EncodeFrom(s, 0)

ErrBase64 == "illegal base64 data"

\* s without its CR and LF bytes, which the decoder skips
RECURSIVE DropNewlines(_, _)
DropNewlines(s, i) ==
    IF i >= Len(s) THEN <<>>
    ELSE IF isNewline(At(s, i)) THEN DropNewlines(s, i + 1)
    ELSE <<At(s, i)>> \o DropNewlines(s, i + 1)

\* the quanta of four characters of t from index i
RECURSIVE B64DecodeFrom(_, _)
B64DecodeFrom(t, i) ==
    LET r == Len(t) - i IN
    IF r = 0 THEN [out |-> <<>>, err |-> NoErr]
    ELSE IF r < 4 THEN [out |-> <<>>, err |-> ErrBase64]
    ELSE
    LET v0 == B64Val(At(t, i))
        v1 == B64Val(At(t, i + 1))
        v2 == B64Val(At(t, i + 2))
        v3 == B64Val(At(t, i + 3))
        o0 == (v0 * 4 + (v1 \div 16)) % 256
        o1 == ((v1 % 16) * 16 + (v2 \div 4)) % 256
        o2 == ((v2 % 4) * 64 + v3) % 256
    IN IF v0 = -1 \/ v1 = -1 THEN [out |-> <<>>, err |-> ErrBase64]
       ELSE IF At(t, i + 2) = EQ
       THEN IF At(t, i + 3) = EQ /\ r = 4
            THEN [out |-> <<o0>>, err |-> NoErr]
            ELSE [out |-> <<>>, err |-> ErrBase64]
       ELSE IF v2 = -1 THEN [out |-> <<>>, err |-> ErrBase64]
       ELSE IF At(t, i + 3) = EQ
       THEN IF r = 4 THEN [out |-> <<o0, o1>>, err |-> NoErr]
            ELSE [out |-> <<>>, err |-> ErrBase64]
       ELSE IF v3 = -1 THEN [out |-> <<>>, err |-> ErrBase64]
       ELSE LET rest == B64DecodeFrom(t, i + 4) IN
            [out |-> <<o0, o1, o2>> \o rest.out, err |-> rest.err]

\* base64.StdEncoding.DecodeString(s)
B64Decode(s) == B64DecodeFrom(DropNewlines(s, 0), 0)

----------------------------------------------------------------------------
(* RFC 2047 encoded-words: HeaderEncoder.                                   *)
maxEncodedWordLen == 75

Q == <<81>>
B == <<66>>

ToUpperByte(c) == IF 97 <= c /\ c <= 122 THEN c - 32 ELSE c

\* strings.ToUpper on an ASCII string
ToUpper(s) == [k \in 1..Len(s) |-> ToUpperByte(s[k])]

\* "UTF-8"
UTF8 == <<85, 84, 70, 45, 56>>

ErrEncoding == "RFC 2047 encoding not supported"

\* NewHeaderEncoder(charset, enc)
NewHeaderEncoder(charset, e) ==
    IF ToUpper(e) # Q /\ ToUpper(e) # B
    THEN [err |-> ErrEncoding]
    ELSE [err |-> NoErr, charset |-> charset, encoding |-> e,
          splitWords |-> (ToUpper(charset) = UTF8)]

\* utf8.RuneStart(b)
RuneStart(b) == ~(128 <= b /\ b <= 191)

RECURSIVE RuneSizeLoop(_, _, _)
RuneSizeLoop(s, i, runeSize) ==
    IF i + runeSize < Len(s) /\ ~RuneStart(At(s, i + runeSize))
    THEN RuneSizeLoop(s, i, runeSize + 1)
    ELSE runeSize

getRuneSize(s, i) == RuneSizeLoop(s, i, 1)

RECURSIVE NeedsFrom(_, _)
NeedsFrom(s, i) ==
    IF i >= Len(s) THEN FALSE
    ELSE IF ~isVchar(At(s, i)) /\ ~isWSP(At(s, i)) THEN TRUE
    ELSE NeedsFrom(s, i + 1)

needsEncoding(s) == NeedsFrom(s, 0)

\* the byte passes the Q encoding unescaped
isQSafe(b) == isVchar(b) /\ b # EQ /\ b # QM /\ b # US

writeQ(b) ==
    IF b = SP THEN <<US>>
    ELSE IF isQSafe(b) THEN <<b>>
    ELSE encodeByte(b)

\* writeQString(buf, s[i:j])
RECURSIVE writeQString(_, _, _)
writeQString(s, i, j) ==
    IF i >= j THEN <<>> ELSE writeQ(At(s, i)) \o writeQString(s, i + 1, j)

\* what openWord writes: "=?" charset "?" encoding "?"
openWord(e) == <<EQ, QM>> \o e.charset \o <<QM>> \o e.encoding \o <<QM>>

\* what openWord returns
openWordLen(e) == 4 + Len(e.charset) + Len(e.encoding)

closeWord == <<QM, EQ>>

\* what splitWord writes: "?=" CR LF SP and the opening of the next word
splitWord(e) == closeWord \o <<CR, LF, SP>> \o openWord(e)

\* the B branch with splitting: the loop over the runes of s
RECURSIVE BSplitLoop(_, _, _, _, _, _)
BSplitLoop(e, s, maxLen, i, n, last) ==
    IF i >= Len(s) THEN B64Encode(Slice(s, last, Len(s)))
    ELSE LET runeSize == getRuneSize(s, i) IN
         IF B64EncodedLen(n + runeSize) <= maxLen
         THEN BSplitLoop(e, s, maxLen, i + runeSize, n + runeSize, last)
         ELSE B64Encode(Slice(s, last, i)) \o splitWord(e)
              \o BSplitLoop(e, s, maxLen, i + runeSize, runeSize, i)

\* the margin the Q branch keeps for the closing "?="
qCloseMargin == 2

\* the Q branch with splitting: the loop over the runes of s
RECURSIVE QSplitLoop(_, _, _, _)
QSplitLoop(e, s, i, n) ==
    IF i >= Len(s) THEN <<>>
    ELSE LET b        == At(s, i)
             plain    == b = SP \/ isQSafe(b)
             runeSize == IF plain THEN 1 ELSE getRuneSize(s, i)
             encLen   == IF plain THEN 1 ELSE 3 * runeSize
             split    == n + encLen > maxEncodedWordLen - qCloseMargin
             n1       == IF split THEN openWordLen(e) ELSE n
         IN (IF split THEN splitWord(e) ELSE <<>>)
            \o writeQString(s, i, i + runeSize)
            \o QSplitLoop(e, s, i + runeSize, n1 + encLen)

\* encodeWord(s)
encodeWord(e, s) ==
    LET open == openWord(e) IN
    IF ToUpper(e.encoding) = B
    THEN LET maxLen == maxEncodedWordLen - Len(open) - 2 IN
         IF ~e.splitWords \/ B64EncodedLen(Len(s)) <= maxLen
         THEN open \o B64Encode(s) \o closeWord
         ELSE open \o BSplitLoop(e, s, maxLen, 0, 0, 0) \o closeWord
    ELSE IF ~e.splitWords
         THEN open \o writeQString(s, 0, Len(s)) \o closeWord
         ELSE open \o QSplitLoop(e, s, 0, Len(open)) \o closeWord

\* EncodeHeader(s)
EncodeHeader(e, s) == IF ~needsEncoding(s) THEN s ELSE encodeWord(e, s)

----------------------------------------------------------------------------
(* RFC 2047 encoded-words: DecodeHeader.                                    *)
ErrQUnescaped == "invalid unescaped byte in Q encoded string"
ErrCharsets == "multiple charsets in header are not supported"

\* \w or '-', the class of the charset in the rfc2047 regexp
isCharsetChar(c) ==
    \/ (48 <= c /\ c <= 57) \/ (65 <= c /\ c <= 90) \/ (97 <= c /\ c <= 122)
    \/ c = US \/ c = 45

\* the end of the run of charset characters of h that starts at index i
RECURSIVE CharsetEnd(_, _)
CharsetEnd(h, i) ==
    IF i < Len(h) /\ isCharsetChar(At(h, i)) THEN CharsetEnd(h, i + 1) ELSE i

\* rfc2047.FindString(h[p:]): the length of the match of
\* ^=\?[\w\-]+\?[bBqQ]\?[^?]+\?= at index p of h, 0 when there is none
MatchWord(h, p) ==
    IF ~(p + 1 < Len(h) /\ At(h, p) = EQ /\ At(h, p + 1) = QM) THEN 0
    ELSE LET ce == CharsetEnd(h, p + 2) IN
         IF ~(ce > p + 2 /\ ce + 2 < Len(h)) THEN 0
         ELSE IF ~(At(h, ce) = QM /\ At(h, ce + 1) \in {98, 66, 113, 81}
                   /\ At(h, ce + 2) = QM) THEN 0
         ELSE LET pe == IndexFrom(h, ce + 3, QM) IN
              IF pe = -1 \/ pe = ce + 3 THEN 0
              ELSE IF ~(pe + 1 < Len(h) /\ At(h, pe + 1) = EQ) THEN 0
              ELSE pe + 2 - p

\* strings.Split(s[i:], "?")
RECURSIVE SplitQM(_, _)
SplitQM(s, i) ==
    LET k == IndexFrom(s, i, QM) IN
    IF k = -1 THEN <<Slice(s, i, Len(s))>>
    ELSE <<Slice(s, i, k)>> \o SplitQM(s, k + 1)

\* qDecode(s): the loop from index i
RECURSIVE QDecodeLoop(_, _, _)
QDecodeLoop(s, i, out) ==
    IF i >= Len(s) THEN [out |-> out, err |-> NoErr]
    ELSE LET c == At(s, i) IN
         IF c = US THEN QDecodeLoop(s, i + 1, Append(out, SP))
         ELSE IF c = EQ
         THEN IF i + 2 >= Len(s) THEN [out |-> out, err |-> ErrUnexpectedEOF]
              ELSE LET h == readHexByte(s, i + 1) IN
                   IF h.err # NoErr THEN [out |-> out, err |-> h.err]
                   ELSE QDecodeLoop(s, i + 3, Append(out, h.b))
         ELSE IF isVchar(c) \/ c = SP \/ c = LF \/ c = CR \/ c = TAB
         THEN QDecodeLoop(s, i + 1, Append(out, c))
         ELSE [out |-> out, err |-> ErrQUnescaped]

qDecode(s) == QDecodeLoop(s, 0, <<>>)

\* decodeWord(s)
decodeWord(s) ==
    LET fields == SplitQM(s, 0) IN
    IF Len(fields) # 5 \/ fields[1] # <<EQ>> \/ fields[5] # <<EQ>> \/ Len(fields[3]) # 1
    THEN [text |-> s, charset |-> <<>>, err |-> NoErr]
    ELSE LET e == ToUpper(fields[3])
             d == IF e = B THEN B64Decode(fields[4])
                  ELSE IF e = Q THEN qDecode(fields[4])
                  ELSE [out |-> <<>>, err |-> ErrEncoding]
         IN [text |-> d.out, charset |-> fields[2], err |-> d.err]

\* the loop over j without a turn
SkipSpaceNone(h, p) == 0

\* the number of WSP and newline bytes of h from index p
RECURSIVE SkipSpace(_, _)
SkipSpace(h, p) ==
    IF p < Len(h) /\ (isWSP(At(h, p)) \/ isNewline(At(h, p)))
    THEN 1 + SkipSpace(h, p + 1) ELSE 0

\* line 477 with the error test dropped
WordFailedNever(d) == FALSE

\* line 477: decodeWord returned an error
WordFailed(d) == d.err # NoErr

\* lines 482-484 with the comparison dropped
CharsetConflictNever(charset, wordCharset) == FALSE

\* lines 482-484: a charset is known and the word carries another one
CharsetConflict(charset, wordCharset) == charset # <<>> /\ charset # wordCharset

\* DecodeHeader: p is where the rest of the header starts, wl the length of
\* the word matched at p (0 in the outer loop)
RECURSIVE DecodeHeaderLoop(_, _, _, _, _)
DecodeHeaderLoop(h, p, wl, buf, charset) ==
    IF wl = 0
    THEN LET i == IndexFrom(h, p, EQ) IN
         IF i = -1
         THEN [text |-> buf \o Slice(h, p, Len(h)), charset |-> charset, err |-> NoErr]
         ELSE LET buf1 == buf \o Slice(h, p, i)
                  m    == MatchWord(h, i)
              IN IF m = 0
                 THEN DecodeHeaderLoop(h, i + 1, 0, Append(buf1, EQ), charset)
                 ELSE DecodeHeaderLoop(h, i, m, buf1, charset)
    ELSE LET word == Slice(h, p, p + wl)
             d    == decodeWord(word)
         IN IF WordFailed(d)
            THEN DecodeHeaderLoop(h, p + wl, 0, buf \o word, charset)
            ELSE IF CharsetConflict(charset, d.charset)
            THEN [text |-> <<>>, charset |-> <<>>, err |-> ErrCharsets]
            ELSE LET cs == IF charset = <<>> THEN d.charset ELSE charset
                     p1 == p + wl
                     j  == SkipSpace(h, p1)
                     m  == IF j = 0 THEN 0 ELSE MatchWord(h, p1 + j)
                 IN IF m = 0
                    THEN DecodeHeaderLoop(h, p1, 0, buf \o d.text, cs)
                    ELSE DecodeHeaderLoop(h, p1 + j, m, buf \o d.text, cs)

\* DecodeHeader(header)
DecodeHeader(h) == DecodeHeaderLoop(h, 0, 0, <<>>, <<>>)

----------------------------------------------------------------------------
(* gomail: the line writers of the exported body.                           *)
maxLineLen == 78

\* base64LineWriter.Write(p) with the column at lineLen
RECURSIVE B64LineLoop(_, _, _, _)
B64LineLoop(p, lineLen, n, out) ==
    IF Len(p) + lineLen > maxLineLen
    THEN B64LineLoop(Slice(p, maxLineLen - lineLen, Len(p)), 0,
                     n + (maxLineLen - lineLen),
                     out \o Slice(p, 0, maxLineLen - lineLen) \o <<CR, LF>>)
    ELSE [out |-> out \o p, lineLen |-> lineLen + Len(p), n |-> n + Len(p)]

\* the writer with no line limit: everything is passed on as it comes
B64LineWriteThrough(p, lineLen) ==
    [out |-> p, lineLen |-> lineLen + Len(p), n |-> Len(p)]

B64LineWrite(p, lineLen) == B64LineLoop(p, lineLen, 0, <<>>)

\* qpLineWriter.Write(p) with the column at lineLen; rest holds the bytes of
\* the array under p that lie between len(p) and cap(p). A slice expression
\* or an index out of range stops the call: panic is TRUE and out holds what
\* was written before.
\* the newline test without its exception for the last index
AtNewlineAny(p, i, hi) == i # -1

\* line 226: a newline was found at i among the first hi bytes, and it is
\* not a bare LF at the last of them
AtNewline(p, i, hi) == i # -1 /\ (i # hi - 1 \/ At(p, i - 1) = CR)

RECURSIVE QpLineLoop(_, _, _, _, _)
QpLineLoop(p, rest, lineLen, n, out) ==
    IF Len(p) = 0
    THEN [out |-> out, lineLen |-> lineLen, n |-> n, panic |-> FALSE]
    ELSE IF Len(p) < maxLineLen - lineLen
    THEN [out |-> out \o p, lineLen |-> lineLen + Len(p), n |-> n + Len(p),
          panic |-> FALSE]
    ELSE LET hi == maxLineLen - lineLen + 2
             stop == [out |-> out, lineLen |-> lineLen, n |-> n, panic |-> TRUE]
         IN
         IF hi > Len(p) + Len(rest) THEN stop
         ELSE LET all  == p \o rest
                  i    == IndexFrom(Slice(all, 0, hi), 0, LF)
                  atNl == AtNewline(p, i, hi)
              IN
              IF i # -1 /\ i = hi - 1 /\ i - 1 >= Len(p) THEN stop
              ELSE IF atNl
              THEN IF i + 1 > Len(p)
                   THEN [stop EXCEPT !.out = out \o Slice(all, 0, i + 1)]
                   ELSE QpLineLoop(Slice(p, i + 1, Len(p)), rest, 0, n + i + 1,
                                   out \o Slice(p, 0, i + 1))
              ELSE LET toWrite ==
                           IF maxLineLen - lineLen - 2 >= 0
                              /\ At(p, maxLineLen - lineLen - 2) = EQ
                           THEN maxLineLen - lineLen - 2
                           ELSE IF At(p, maxLineLen - lineLen - 1) = EQ
                           THEN maxLineLen - lineLen - 1
                           ELSE maxLineLen - lineLen
                   IN QpLineLoop(Slice(p, toWrite, Len(p)), rest, 0, n + toWrite,
                                 out \o Slice(p, 0, toWrite) \o <<EQ, CR, LF>>)

QpLineWrite(p, rest, lineLen) == QpLineLoop(p, rest, lineLen, 0, <<>>)

\* the bytes base64.NewEncoder hands down for a body: Write passes the
\* encoding of the whole 3-byte groups, Close that of the remaining bytes
B64Whole(body) == B64Encode(Slice(body, 0, (Len(body) \div 3) * 3))
B64Tail(body)  == B64Encode(Slice(body, (Len(body) \div 3) * 3, Len(body)))

\* writeBody(body, Base64): what reaches subWriter
WriteBodyBase64(body) ==
    LET w1 == IF B64Whole(body) = <<>> THEN [out |-> <<>>, lineLen |-> 0, n |-> 0]
              ELSE B64LineWrite(B64Whole(body), 0)
        w2 == IF B64Tail(body) = <<>> THEN [out |-> <<>>, lineLen |-> w1.lineLen, n |-> 0]
              ELSE B64LineWrite(B64Tail(body), w1.lineLen)
    IN [out |-> w1.out \o w2.out, panic |-> FALSE]

\* make([]byte, n): n zero bytes
Zeros(n) == [k \in 1..n |-> 0]

\* writeBody(body, QuotedPrintable): encoder.Write encodes the body into a
\* buffer of MaxEncodedLen(len(body)) zero bytes and writes dbuf[:n] once
WriteBodyQp(body) ==
    LET dbuf == Encode(body)
        r    == QpLineWrite(dbuf, Zeros(MaxEncodedLen(Len(body)) - Len(dbuf)), 0)
    IN [out |-> r.out, panic |-> r.panic]

----------------------------------------------------------------------------
(* gomail: Message and its export. A header is a function from field names  *)
(* to lists of values; a value built by concatenation is the tuple of its   *)
(* pieces. The body buffer is the sequence of what the multipart writers    *)
(* and the body writers put into it: part delimiters with their headers,    *)
(* closing delimiters, and the bytes of encoded bodies.                     *)
QuotedPrintable == "quoted-printable"
Base64 == "base64"

EmptyHeader == [f \in {} |-> <<>>]

\* h[field] = value
Put(h, field, value) ==
    [f \in DOMAIN h \cup {field} |-> IF f = field THEN value ELSE h[f]]

\* for field, value := range h { to[field] = value }
PutAll(to, h) ==
    [f \in DOMAIN to \cup DOMAIN h |-> IF f \in DOMAIN h THEN h[f] ELSE to[f]]

\* NewCustomMessage(charset, encoding)
NewCustomMessage(charset, encoding) ==
    [header |-> EmptyHeader, parts |-> <<>>, attachments |-> <<>>,
     charset |-> charset, encoding |-> encoding,
     hEncoder |-> NewHeaderEncoder(charset, IF encoding = Base64 THEN B ELSE Q)]

\* NewMessage()
NewMessage == NewCustomMessage(UTF8, QuotedPrintable)

\* delete(h, field)
Delete(h, field) == [f \in DOMAIN h \ {field} |-> h[f]]

\* append(h[field], value): the values of the field, none for a field the
\* map does not hold, with value after them
Appended(h, field, value) ==
    Append(IF field \in DOMAIN h THEN h[field] ELSE <<>>, value)

\* msg.encodeHeader(value)
encodeHeader(m, value) == EncodeHeader(m.hEncoder, value)

\* msg.buildAddressHeader(address, name)
buildAddressHeader(m, address, name) ==
    encodeHeader(m, name) \o <<SP, LT>> \o address \o <<GT>>

\* a number of two decimal digits
TwoDigits(n) == <<48 + ((n \div 10) % 10), 48 + (n % 10)>>

\* the abbreviations of the months
MonthNames ==
    <<<<74, 97, 110>>, <<70, 101, 98>>, <<77, 97, 114>>, <<65, 112, 114>>,
      <<77, 97, 121>>, <<74, 117, 110>>, <<74, 117, 108>>, <<65, 117, 103>>,
      <<83, 101, 112>>, <<79, 99, 116>>, <<78, 111, 118>>, <<68, 101, 99>>>>

\* buildDateHeader(date): date.Format(time.RFC822), "02 Jan 06 15:04 MST"
buildDateHeader(date) ==
    TwoDigits(date.day) \o <<SP>> \o MonthNames[date.month] \o <<SP>>
    \o TwoDigits(date.year % 100) \o <<SP>>
    \o TwoDigits(date.hour) \o <<COLON>> \o TwoDigits(date.minute) \o <<SP>>
    \o date.zone

\* isMixed without its second disjunct
isMixedBoth(m) == Len(m.parts) > 0 /\ Len(m.attachments) > 0

isMixed(m) ==
    (Len(m.parts) > 0 /\ Len(m.attachments) > 0) \/ Len(m.attachments) > 1

isAlternative(m) == Len(m.parts) > 1

\* buildDateHeader(now())
DateNow == "now"

\* the objects of a message in memory: its header map, "msg", from each
\* field to the address of the field's list of values; the lists by address;
\* the buffer of each part and the content of each attachment
HeapOf(m) ==
    [maps     |-> [id \in {"msg"} |-> [f \in DOMAIN m.header |-> <<"msg", f>>]],
     slices   |-> [a \in {<<"msg", f>> : f \in DOMAIN m.header} |-> m.header[a[2]]],
     bodies   |-> [k \in 1..Len(m.parts) |-> m.parts[k].body],
     contents |-> [k \in 1..Len(m.attachments) |-> m.attachments[k].content]]

\* the map id read through the lists its fields point to
HeaderAt(h, id) == [f \in DOMAIN h.maps[id] |-> h.slices[h.maps[id][f]]]

\* for field, value := range hdr { m[field] = value } on the map id, each
\* value a list of its own and not one of the message's
StoreAll(h, id, hdr) ==
    [h EXCEPT !.slices = PutAll(@, [a \in {<<"w", f>> : f \in DOMAIN hdr} |-> hdr[a[2]]]),
              !.maps[id] = PutAll(@, [f \in DOMAIN hdr |-> <<"w", f>>])]

\* m[field] = []string{...} on the map id
Store(h, id, field, values) == StoreAll(h, id, Put(EmptyHeader, field, values))

\* header := msg.header: the writer works on the message's own map
MessageHeader(m) == "msg"

\* newMessageWriter, line 88: header := make(mail.Header, len(msg.header)),
\* a map that is not the message's
MakeHeader(m) == "w"

\* newMessageWriter(msg): the new map gets the message's fields, each with
\* the list of values the message has for it (the list is shared, not
\* copied), then Mime-Version and Date when it has none
newMessageWriter(m) ==
    LET id == MakeHeader(m)
        h0 == HeapOf(m)
        h1 == [h0 EXCEPT !.maps = IF id \in DOMAIN @ THEN @ ELSE Put(@, id, EmptyHeader)]
        h2 == [h1 EXCEPT !.maps[id] = PutAll(@, h1.maps["msg"])]
        h3 == IF "Mime-Version" \in DOMAIN h2.maps[id] THEN h2
              ELSE Store(h2, id, "Mime-Version", <<"1.0">>)
        h4 == IF "Date" \in DOMAIN h3.maps[id] THEN h3
              ELSE Store(h3, id, "Date", <<DateNow>>)
    IN [header |-> id, heap |-> h4, buf |-> <<>>,
        writers |-> <<"nil", "nil">>, partWriter |-> "nil", depth |-> 0]

\* multipart.NewWriter(w.buf) for slot d: the boundaries of two writers differ
NewWriter(d) == [boundary |-> <<"boundary", d>>, parts |-> 0, closed |-> FALSE]

\* w.createPart(h): CreatePart on the writer below the current depth
createPart(mw, h) ==
    LET d  == mw.depth
        wr == mw.writers[d]
    IN [mw EXCEPT
          !.buf = Append(@, [tok |-> "part", boundary |-> wr.boundary,
                             first |-> wr.parts = 0, header |-> h]),
          !.writers[d] = [wr EXCEPT !.parts = @ + 1],
          !.partWriter = [boundary |-> wr.boundary, part |-> wr.parts + 1]]

\* w.openMultipart(mimeType)
openMultipart(mw, mimeType) ==
    LET d  == mw.depth
        wr == NewWriter(d)
        contentType == <<"multipart/", mimeType, "; boundary=", wr.boundary>>
        m1 == [mw EXCEPT !.writers[d + 1] = wr]
        m2 == IF d = 0
              THEN [m1 EXCEPT !.heap = Store(@, m1.header, "Content-Type", <<contentType>>)]
              ELSE createPart(m1, Put(EmptyHeader, "Content-Type", <<contentType>>))
    IN [m2 EXCEPT !.depth = d + 1]

\* closeMultipart that closes the writer and leaves the depth as it is
closeMultipartKeepDepth(mw) ==
    IF mw.depth > 0
    THEN [mw EXCEPT
            !.buf = Append(@, [tok |-> "close",
                               boundary |-> mw.writers[mw.depth].boundary]),
            !.writers[mw.depth] = [@ EXCEPT !.closed = TRUE]]
    ELSE mw

\* w.closeMultipart()
closeMultipart(mw) ==
    IF mw.depth > 0
    THEN [mw EXCEPT
            !.buf = Append(@, [tok |-> "close",
                               boundary |-> mw.writers[mw.depth].boundary]),
            !.writers[mw.depth] = [@ EXCEPT !.closed = TRUE],
            !.depth = @ - 1]
    ELSE mw

\* w.writeHeader(h)
writeHeader(mw, h) ==
    IF mw.depth = 0 THEN [mw EXCEPT !.heap = StoreAll(@, mw.header, h)]
    ELSE createPart(mw, h)

\* w.writeBody(body, encoding): the writer afterwards, and whether the call
\* panicked
writeBody(mw, body, encoding) ==
    LET r == IF encoding = Base64 THEN WriteBodyBase64(body) ELSE WriteBodyQp(body)
    IN [w |-> IF r.out = <<>> THEN mw
              ELSE [mw EXCEPT !.buf = Append(@, [tok |-> "body", bytes |-> r.out,
                                                 encoding |-> encoding,
                                                 to |-> IF mw.depth = 0 THEN "buf"
                                                        ELSE mw.partWriter])],
        panic |-> r.panic]

\* the message as its objects are in the writer's memory: its header map
\* read through the lists of values, the buffers of its parts and the
\* contents of its attachments
MessageAfter(m, mw) ==
    [m EXCEPT
       !.header = HeaderAt(mw.heap, "msg"),
       !.parts = [k \in 1..Len(m.parts) |->
                    [m.parts[k] EXCEPT !.body = mw.heap.bodies[k]]],
       !.attachments = [k \in 1..Len(m.attachments) |->
                          [m.attachments[k] EXCEPT !.content = mw.heap.contents[k]]]]

\* w.export(): the writer's map and buffer
export(mw) == [Header |-> HeaderAt(mw.heap, mw.header), Body |-> mw.buf]

\* the header of a textual part, Export lines 29-35
PartHeader(m, part) ==
    LET h == Put(EmptyHeader, "Content-Type",
                 <<<<part.contentType, "; charset=", m.charset>>>>)
    IN Put(h, "Content-Transfer-Encoding",
           <<IF m.encoding = Base64 THEN Base64 ELSE QuotedPrintable>>)

\* filepath.Ext(path): the suffix of the last element of path from its last
\* dot on, "" without a dot
Ext(path) ==
    LET dots == {i \in 0..(Len(path) - 1) :
                    /\ At(path, i) = DOT
                    /\ \A j \in i..(Len(path) - 1) : At(path, j) # SLASH}
    IN IF dots = {} THEN <<>>
       ELSE LET i == CHOOSE d \in dots : \A o \in dots : o <= d
            IN Slice(path, i, Len(path))

\* strings.ToLower on an ASCII string
ToLower(s) == [k \in 1..Len(s) |-> IF 65 <= s[k] /\ s[k] <= 90 THEN s[k] + 32 ELSE s[k]]

\* mime.TypeByExtension(ext): the type of the table for ".pdf", ".zip" and
\* ".jpg", looked up as written and then in lower case, "" for any other
TypeByExtension(ext) ==
    LET e == ToLower(ext) IN
    IF e = <<DOT, 112, 100, 102>> THEN "application/pdf"
    ELSE IF e = <<DOT, 122, 105, 112>> THEN "application/zip"
    ELSE IF e = <<DOT, 106, 112, 103>> THEN "image/jpeg"
    ELSE ""

\* the header of an attachment, Export lines 47-55
AttachmentHeader(a) ==
    LET mimeType == IF TypeByExtension(Ext(a.name)) = "" THEN "application/octet-stream"
                    ELSE TypeByExtension(Ext(a.name))
        h1 == Put(EmptyHeader, "Content-Type",
                  <<<<mimeType, "; name=\"", a.name, "\"">>>>)
        h2 == Put(h1, "Content-Disposition",
                  <<<<"attachment; filename=\"", a.name, "\"">>>>)
    IN Put(h2, "Content-Transfer-Encoding", <<Base64>>)

----------------------------------------------------------------------------
(* Values of the variables a component does not use.                        *)
NoDec  == [out |-> <<>>, err |-> NoErr, from |-> <<>>, pos |-> 0]

IdleCodec  == src = <<>> /\ enc = <<>> /\ dec = NoDec
IdleHeader ==
    hcfg = "none" /\ hin = <<>> /\ hout = <<>> /\ hdec = "none" /\ htoks = <<>>
IdleEnc    == ein = <<>> /\ ew = <<>> /\ ecall = "none"
IdleRead   == rsrc = <<>> /\ q = "none" /\ rd = "none"
IdleMail   == msg = "none" /\ w = "none" /\ res = "none"
IdleLine   == lw = "none"
IdleSend   == sd = "none"

\* all sequences over S of length at most n
BSeq(S, n) == UNION {[1..k -> S] : k \in 0..n}

----------------------------------------------------------------------------
(* The codec under check: Encode and Decode applied to bounded inputs.      *)
MaxLen == 4

\* TAB LF CR SP '=' 'A' 'Z' 'a' and a byte above 0x7E
CodecBytes == {TAB, LF, CR, SP, EQ, 65, 90, 97, 233}

InitCodec ==
    /\ pc = "codec"
    /\ src \in BSeq(CodecBytes, MaxLen)
    /\ enc = <<>>
    /\ dec = NoDec
    /\ IdleHeader /\ IdleEnc /\ IdleRead /\ IdleMail /\ IdleLine /\ IdleSend

\* n := Encode(dst, src)
CallEncode ==
    /\ pc = "codec"
    /\ enc' = Encode(src)
    /\ pc' = "encoded"
    /\ UNCHANGED <<src, dec, headerVars, encVars, readVars, mailVars, lineVars, sendVars>>

\* n, err := Decode(dst, src)
CallDecode ==
    /\ pc = "codec"
    /\ dec' = Decode(src)
    /\ pc' = "decoded"
    /\ UNCHANGED <<src, enc, headerVars, encVars, readVars, mailVars, lineVars, sendVars>>

\* n, err := Decode(dst, enc) on the bytes Encode produced
CallDecodeEncoded ==
    /\ pc = "encoded"
    /\ dec' = Decode(enc)
    /\ pc' = "roundtrip"
    /\ UNCHANGED <<src, enc, headerVars, encVars, readVars, mailVars, lineVars, sendVars>>

NextCodec == CallEncode \/ CallDecode \/ CallDecodeEncoded

SpecCodec == InitCodec /\ [][NextCodec]_vars

----------------------------------------------------------------------------
(* Claims about the codec.                                                  *)

Range(f) == {f[k] : k \in DOMAIN f}

MalformedErrs == {ErrHexByte, ErrUnescaped, ErrAfterEq}

\* the bytes Decode copies when they are not escaped
AllowedLiteral(c) == (c >= SP /\ c <= TILDE) \/ c = LF \/ c = CR \/ c = TAB

\* s[i:] is made of allowed unescaped bytes other than '=' and of '=XX'
\* triplets with X in 0-9A-F
RECURSIVE WellFormedFrom(_, _)
WellFormedFrom(s, i) ==
    IF i >= Len(s) THEN TRUE
    ELSE IF At(s, i) = EQ
    THEN /\ i + 2 < Len(s)
         /\ At(s, i + 1) \in Range(hextable)
         /\ At(s, i + 2) \in Range(hextable)
         /\ WellFormedFrom(s, i + 3)
    ELSE AllowedLiteral(At(s, i)) /\ WellFormedFrom(s, i + 1)

WellFormedQP(s) == WellFormedFrom(s, 0)

\* C1: Decode(Encode(x)) returns exactly x with a nil error, for every byte
\* sequence x, bare CR, bare LF and trailing spaces and tabs included.
C1_RoundTrip ==
    pc = "roundtrip" => (dec.out = src /\ dec.err = NoErr)

\* index i starts a soft line break: '=' directly followed by LF or by CR LF
SoftBreakAt(s, i) ==
    /\ i < Len(s) /\ At(s, i) = EQ
    /\ \/ (i + 1 < Len(s) /\ At(s, i + 1) = LF)
       \/ (i + 2 < Len(s) /\ At(s, i + 1) = CR /\ At(s, i + 2) = LF)

\* the input ends in '=' followed by fewer than two bytes
EndsInShortEscape(s) ==
    \/ (Len(s) >= 1 /\ At(s, Len(s) - 1) = EQ)
    \/ (Len(s) >= 2 /\ At(s, Len(s) - 2) = EQ)

\* C6 as stated: Decode returns io.ErrUnexpectedEOF for every input whose end
\* is '=' followed by zero bytes or by one byte.
C6_Original ==
    (pc = "decoded" /\ EndsInShortEscape(src)) => dec.err = ErrUnexpectedEOF

\* C6 as amended: after a prefix of allowed unescaped bytes and well-formed
\* triplets, '=' plus one byte other than SP, TAB, CR, LF at the end of the
\* input is io.ErrUnexpectedEOF, reported at that '=';
\* a bare '=' at the end of the input is a soft line break, not an error.
C6_UnexpectedEOF ==
    pc = "decoded" =>
        /\ \A b \in CodecBytes \ {SP, TAB, CR, LF} :
             ( /\ Len(src) >= 2
               /\ At(src, Len(src) - 2) = EQ
               /\ At(src, Len(src) - 1) = b
               /\ WellFormedQP(Slice(src, 0, Len(src) - 2)) )
             => (dec.err = ErrUnexpectedEOF /\ dec.pos = Len(src) - 2)
        /\ ( /\ Len(src) >= 1
             /\ At(src, Len(src) - 1) = EQ
             /\ WellFormedQP(Slice(src, 0, Len(src) - 1)) )
           => dec.err = NoErr

C6_Witness ==
    /\ pc = "decoded"
    /\ Len(src) >= 3
    /\ At(src, Len(src) - 2) = EQ
    /\ At(src, Len(src) - 1) = 65
    /\ dec.err = ErrUnexpectedEOF
    /\ Len(dec.out) >= 1

\* index i holds an unescaped byte: neither of the two bytes before it is '='
UnescapedAt(s, i) ==
    /\ ~(i >= 1 /\ At(s, i - 1) = EQ)
    /\ ~(i >= 2 /\ At(s, i - 2) = EQ)

\* Decode stopped with a malformed-input error at or before index i and
\* returned only bytes decoded before the place it stopped
MalformedBy(i) ==
    /\ dec.err \in MalformedErrs
    /\ dec.pos <= i
    /\ \A k \in DOMAIN dec.from : dec.from[k] < dec.pos
    /\ Len(dec.out) = Len(dec.from)

\* C7 as stated: an '=' with at least two following bytes whose next byte is
\* not 0-9 or A-F is a MalformedInput error, so is an unescaped byte outside
\* {0x20..0x7E, TAB, CR, LF}; Decode stops there; well-formed input decodes
\* with no error.
C7_Original ==
    pc = "decoded" =>
        /\ \A i \in 0..(Len(src) - 1) :
             ( /\ At(src, i) = EQ
               /\ i + 2 < Len(src)
               /\ At(src, i + 1) \notin Range(hextable) )
             => MalformedBy(i)
        /\ \A i \in 0..(Len(src) - 1) :
             (~AllowedLiteral(At(src, i)) /\ UnescapedAt(src, i)) => MalformedBy(i)
        /\ WellFormedQP(src) => dec.err = NoErr

\* C7 as amended: the same, for an '=' that does not start a soft line break
\* ('=' directly followed by LF or by CR LF decodes to nothing, with no error).
C7_Malformed ==
    pc = "decoded" =>
        /\ \A i \in 0..(Len(src) - 1) :
             ( /\ At(src, i) = EQ
               /\ i + 2 < Len(src)
               /\ At(src, i + 1) \notin Range(hextable)
               /\ ~SoftBreakAt(src, i) )
             => MalformedBy(i)
        /\ \A i \in 0..(Len(src) - 1) :
             (~AllowedLiteral(At(src, i)) /\ UnescapedAt(src, i)) => MalformedBy(i)
        /\ WellFormedQP(src) => dec.err = NoErr

C7_Witness ==
    /\ pc = "decoded"
    /\ src = <<65, EQ, 90, 90>>
    /\ dec.err = ErrHexByte
    /\ dec.out = <<65>>

\* the maximal run of spaces and tabs that holds index i ends at this index
RECURSIVE WspRunEnd(_, _)
WspRunEnd(s, i) ==
    IF i < Len(s) /\ isWSP(At(s, i)) THEN WspRunEnd(s, i + 1) ELSE i

\* index i starts a hard line end: LF or CR LF, not part of a soft break
HardEndAt(s, i) ==
    /\ i < Len(s)
    /\ \/ (At(s, i) = LF /\ ~(i >= 1 /\ At(s, i - 1) = CR))
       \/ (At(s, i) = CR /\ i + 1 < Len(s) /\ At(s, i + 1) = LF)
    /\ ~(i >= 1 /\ At(s, i - 1) = EQ)

\* the indexes of the bytes of the soft break or hard line end starting at i
EndBytes(s, i) ==
    IF At(s, i) = LF THEN {i}
    ELSE IF At(s, i) = CR THEN {i, i + 1}
    ELSE IF At(s, i + 1) = LF THEN {i, i + 1}
    ELSE {i, i + 1, i + 2}

\* the output byte decoded at source index i was copied unchanged
CopiedAt(i) ==
    \E k \in DOMAIN dec.from : dec.from[k] = i /\ dec.out[k] = At(src, i)

\* what holds of the soft breaks and hard line ends, in the part of the input
\* Decode went through
EndsHandled ==
    /\ \A i \in 0..(dec.pos - 1) :
         SoftBreakAt(src, i) => \A j \in EndBytes(src, i) : j \notin Range(dec.from)
    /\ \A i \in 0..(dec.pos - 1) :
         HardEndAt(src, i) =>
            \A j \in EndBytes(src, i) : j < dec.pos => CopiedAt(j)
    /\ \A i \in 0..(dec.pos - 1) :
         (isWSP(At(src, i)) /\ HardEndAt(src, WspRunEnd(src, i)))
             => i \notin Range(dec.from)

\* C8 as stated: spaces and tabs directly before a soft break or a hard line
\* end never reach the output; a soft break produces no output; the bytes of a
\* hard line end are copied unchanged.
C8_Original ==
    pc = "decoded" =>
        /\ EndsHandled
        /\ \A i \in 0..(dec.pos - 1) :
             (isWSP(At(src, i)) /\ SoftBreakAt(src, WspRunEnd(src, i)))
                 => i \notin Range(dec.from)

\* C8 as amended: spaces and tabs directly before a hard line end never reach
\* the output, those directly before a soft break are kept (copied to the
\* output); a soft break produces no output; the bytes of a hard line end are
\* copied unchanged.
C8_Trim ==
    pc = "decoded" =>
        /\ EndsHandled
        /\ \A i \in 0..(dec.pos - 1) :
             (isWSP(At(src, i)) /\ SoftBreakAt(src, WspRunEnd(src, i)))
                 => CopiedAt(i)

C8_Witness ==
    /\ pc = "decoded"
    /\ src = <<TAB, EQ, LF, LF>>
    /\ dec.err = NoErr
    /\ dec.out = <<TAB, LF>>

----------------------------------------------------------------------------
(* The streaming encoder: encoder.Write over a downstream io.Writer that    *)
(* either takes everything or stops after some bytes with an error.         *)
MaxEncLen == 3
MaxFails == 1

\* SP LF CR '=' 'A'
EncBytes == {SP, LF, CR, EQ, 65}

ErrDownstream == "downstream write error"

\* the loop that counts the input bytes whose encoding lies in dbuf[:n]
RECURSIVE CountLoopLate(_, _, _, _)
CountLoopLate(dbuf, n, i, nn) ==
    IF i >= n THEN nn
    ELSE IF At(dbuf, i) = EQ
    THEN (IF i + 2 > n THEN nn ELSE CountLoopLate(dbuf, n, i + 3, nn + 1))
    ELSE CountLoopLate(dbuf, n, i + 1, nn + 1)

RECURSIVE CountLoop(_, _, _, _)
CountLoop(dbuf, n, i, nn) ==
    IF i >= n THEN nn
    ELSE IF At(dbuf, i) = EQ
    THEN (IF i + 2 >= n THEN nn ELSE CountLoop(dbuf, n, i + 3, nn + 1))
    ELSE CountLoop(dbuf, n, i + 1, nn + 1)

\* encoder.Write(p) when the downstream Write returns (n, err)
EncoderWrite(p, n, err) ==
    IF err # NoErr THEN [k |-> CountLoop(Encode(p), n, 0, 0), err |-> err]
    ELSE [k |-> Len(p), err |-> NoErr]

InitEnc ==
    /\ pc = "enc"
    /\ ein \in BSeq(EncBytes, MaxEncLen)
    /\ ew = <<>>
    /\ ecall = [p |-> <<>>, n |-> 0, err |-> NoErr, k |-> 0, fails |-> 0]
    /\ IdleCodec /\ IdleHeader /\ IdleRead /\ IdleMail /\ IdleLine /\ IdleSend

\* Write of the next len bytes of the input, all taken downstream
EncWriteOk(len) ==
    /\ pc = "enc"
    /\ LET p == Slice(ein, 0, len)
           r == EncoderWrite(p, Len(Encode(p)), NoErr)
       IN /\ ew' = ew \o Encode(p)
          /\ ecall' = [p |-> p, n |-> Len(Encode(p)), err |-> r.err, k |-> r.k,
                       fails |-> ecall.fails]
          /\ ein' = Slice(ein, r.k, Len(ein))
    /\ UNCHANGED <<pc, codecVars, headerVars, readVars, mailVars, lineVars, sendVars>>

\* Write of the next len bytes of the input, the downstream writer taking n
\* encoded bytes and failing; the caller keeps what was not reported written
EncWriteShort(len, n) ==
    /\ pc = "enc"
    /\ ecall.fails < MaxFails
    /\ LET p == Slice(ein, 0, len)
           r == EncoderWrite(p, n, ErrDownstream)
       IN /\ n <= Len(Encode(p))
          /\ ew' = ew \o Slice(Encode(p), 0, n)
          /\ ecall' = [p |-> p, n |-> n, err |-> r.err, k |-> r.k,
                       fails |-> ecall.fails + 1]
          /\ ein' = Slice(ein, r.k, Len(ein))
    /\ UNCHANGED <<pc, codecVars, headerVars, readVars, mailVars, lineVars, sendVars>>

NextEnc ==
    \/ \E len \in 1..Len(ein) : EncWriteOk(len)
    \/ \E len \in 1..Len(ein) : \E n \in 0..(3 * len) : EncWriteShort(len, n)

SpecEnc == InitEnc /\ [][NextEnc]_vars

\* the number of encoded bytes of the first j bytes of p
RECURSIVE PrefixEncLen(_, _)
PrefixEncLen(p, j) ==
    IF j = 0 THEN 0 ELSE PrefixEncLen(p, j - 1) + Len(EncodeUnit(p, j - 1))

\* the number of input bytes of p whose whole encoded unit lies in the first
\* n encoded bytes
WholeUnits(p, n) == Cardinality({j \in 1..Len(p) : PrefixEncLen(p, j) <= n})

\* C9: when the downstream writer takes only n encoded bytes and fails, Write
\* returns that error and the number of input bytes whose whole encoded unit
\* lies within those n bytes, never counting a byte whose escape was partly
\* written; on success the count is len(p).
C9_PartialWrite ==
    (pc = "enc" /\ Len(ecall.p) > 0) =>
        /\ ecall.err # NoErr =>
             /\ ecall.err = ErrDownstream
             /\ ecall.k = WholeUnits(ecall.p, ecall.n)
             /\ PrefixEncLen(ecall.p, ecall.k) <= ecall.n
        /\ ecall.err = NoErr => ecall.k = Len(ecall.p)

\* a Write cut inside the escape of its second input byte
C9_Witness ==
    /\ pc = "enc"
    /\ ecall.err = ErrDownstream
    /\ ecall.k = 1
    /\ Len(ecall.p) >= 2
    /\ ecall.n = PrefixEncLen(ecall.p, 1) + 2
    /\ PrefixEncLen(ecall.p, 2) = PrefixEncLen(ecall.p, 1) + 3

----------------------------------------------------------------------------
(* The streaming decoder: qpReader.Read over a bufio.Reader.  br is what    *)
(* the source has still to give, term what the source returns after it.     *)
MaxSrcLen == 4
MaxBuf == 2
MaxReads == 3

\* LF '=' 'A' SP
ReadBytes == {LF, EQ, 65, SP}

ErrEOF == "io.EOF"
ErrSource == "source read error"

\* br.ReadSlice('\n'): the line through its LF, or the rest and the source's
\* error when no LF is left
ReadSlice(br, term) ==
    LET k == IndexFrom(br, 0, LF) IN
    IF k # -1
    THEN [line |-> Slice(br, 0, k + 1), rest |-> Slice(br, k + 1, Len(br)), err |-> NoErr]
    ELSE [line |-> br, rest |-> <<>>, err |-> term]

\* the reader state a line leaves behind: the decoded bytes and Decode's error
AfterDecodeKeepErr(qq, rs) ==
    LET d == Decode(rs.line) IN
    [br |-> rs.rest, term |-> qq.term, line |-> d.out,
     eof |-> (qq.eof \/ rs.err = ErrEOF), err |-> rs.err]

AfterDecode(qq, rs) ==
    LET d == Decode(rs.line) IN
    [br |-> rs.rest, term |-> qq.term, line |-> d.out,
     eof |-> (qq.eof \/ rs.err = ErrEOF), err |-> d.err]

\* the loop of Read(p) with len(p) = m; data is p[:n]
RECURSIVE ReadLoop(_, _, _)
ReadLoop(qq, m, data) ==
    IF Len(data) >= m THEN [q |-> qq, data |-> data, err |-> NoErr]
    ELSE IF Len(qq.line) = 0
    THEN IF qq.err # NoErr THEN [q |-> qq, data |-> data, err |-> qq.err]
         ELSE IF qq.eof THEN [q |-> qq, data |-> data, err |-> ErrEOF]
         ELSE LET rs == ReadSlice(qq.br, qq.term) IN
              IF rs.err # NoErr /\ rs.err # ErrEOF
              THEN [q |-> [qq EXCEPT !.br = rs.rest, !.line = rs.line, !.err = rs.err],
                    data |-> data, err |-> rs.err]
              ELSE LET q2 == AfterDecode(qq, rs)
                       nn == IF Len(q2.line) < m - Len(data)
                             THEN Len(q2.line) ELSE m - Len(data)
                   IN ReadLoop([q2 EXCEPT !.line = Slice(q2.line, nn, Len(q2.line))],
                               m, data \o Slice(q2.line, 0, nn))
    ELSE LET nn == IF Len(qq.line) < m - Len(data) THEN Len(qq.line) ELSE m - Len(data)
         IN ReadLoop([qq EXCEPT !.line = Slice(qq.line, nn, Len(qq.line))],
                     m, data \o Slice(qq.line, 0, nn))

InitRead ==
    /\ pc = "read"
    /\ rsrc \in BSeq(ReadBytes, MaxSrcLen)
    /\ \E term \in {ErrEOF, ErrSource} :
         q = [br |-> rsrc, term |-> term, line |-> <<>>, eof |-> FALSE, err |-> NoErr]
    /\ rd = [data |-> <<>>, rets |-> <<>>]
    /\ IdleCodec /\ IdleHeader /\ IdleEnc /\ IdleMail /\ IdleLine /\ IdleSend

\* n, err := Read(p) with len(p) = m
Read(m) ==
    /\ pc = "read"
    /\ Len(rd.rets) < MaxReads
    /\ LET r == ReadLoop(q, m, <<>>) IN
         /\ q' = r.q
         /\ rd' = [data |-> rd.data \o r.data,
                   rets |-> Append(rd.rets, [m |-> m, n |-> Len(r.data), err |-> r.err,
                                             before |-> Len(rd.data)])]
    /\ UNCHANGED <<pc, rsrc, codecVars, headerVars, encVars, mailVars, lineVars, sendVars>>

\* a Read with a buffer of any length, the empty one included
NextRead == \E m \in 0..MaxBuf : Read(m)

SpecRead == InitRead /\ [][NextRead]_vars

\* the lines of s from index i, each through its LF
RECURSIVE LinesFrom(_, _)
LinesFrom(s, i) ==
    IF i >= Len(s) THEN <<>>
    ELSE LET k == IndexFrom(s, i, LF) IN
         IF k = -1 THEN <<Slice(s, i, Len(s))>>
         ELSE <<Slice(s, i, k + 1)>> \o LinesFrom(s, k + 1)

\* index of the first line of ls that Decode rejects, 0 when there is none
RECURSIVE FirstBadLine(_, _)
FirstBadLine(ls, j) ==
    IF j > Len(ls) THEN 0
    ELSE IF Decode(ls[j]).err # NoErr THEN j
    ELSE FirstBadLine(ls, j + 1)

\* the decoded bytes of lines 1..j of ls
RECURSIVE DecodedThrough(_, _)
DecodedThrough(ls, j) ==
    IF j = 0 THEN <<>> ELSE DecodedThrough(ls, j - 1) \o Decode(ls[j]).out

IsPrefix(a, b) == Len(a) <= Len(b) /\ a = SubSeq(b, 1, Len(a))

\* a line of the source fails to decode (and the source gives that line:
\* it ends in LF, or the source ends with io.EOF)
BadLine ==
    LET ls == LinesFrom(rsrc, 0)
        j  == FirstBadLine(ls, 1)
    IN IF j = 0 THEN 0
       ELSE IF j = Len(ls) /\ ls[j][Len(ls[j])] # LF /\ q.term # ErrEOF THEN 0
       ELSE j

\* C10 as stated: once a line fails to decode, Read delivers at most the
\* bytes of that line decoded before the failure, returns the decode error on
\* the call that delivers the last of them or on the next, and returns the
\* same error with zero bytes on every later call; no byte of a later line is
\* delivered.
C10_Original ==
    (pc = "read" /\ BadLine # 0) =>
        LET ls   == LinesFrom(rsrc, 0)
            good == DecodedThrough(ls, BadLine)
            e    == Decode(ls[BadLine]).err
        IN /\ IsPrefix(rd.data, good)
           /\ \A c \in DOMAIN rd.rets :
                LET r == rd.rets[c] IN
                /\ r.err \in {NoErr, e}
                /\ r.err = NoErr => r.n = r.m
                /\ r.before = Len(good) => (r.n = 0 /\ r.err = e)
                /\ (r.before + r.n = Len(good) /\ r.n < r.m) => r.err = e

\* C10: once a line fails to decode, Read delivers at most the bytes of that
\* line decoded before the failure; a Read with a buffer that is not empty
\* returns the decode error when it delivers the last of them without
\* filling the buffer, and returns the same error with zero bytes whenever
\* all of them were delivered before; a Read with an empty buffer returns
\* zero bytes and no error, before and after the failure; no byte of a later
\* line is delivered.
C10_FatalDecodeError ==
    (pc = "read" /\ BadLine # 0) =>
        LET ls   == LinesFrom(rsrc, 0)
            good == DecodedThrough(ls, BadLine)
            e    == Decode(ls[BadLine]).err
        IN /\ IsPrefix(rd.data, good)
           /\ \A c \in DOMAIN rd.rets :
                LET r == rd.rets[c] IN
                /\ r.err \in {NoErr, e}
                /\ r.err = NoErr => r.n = r.m
                /\ r.m = 0 => (r.n = 0 /\ r.err = NoErr)
                /\ (r.before = Len(good) /\ r.m > 0) => (r.n = 0 /\ r.err = e)
                /\ (r.before + r.n = Len(good) /\ r.n < r.m) => r.err = e

\* the failing line gave the byte decoded before the failure and the error
\* in one call, a Read with an empty buffer then returned no error, and the
\* next Read the same error again
C10_Witness ==
    /\ pc = "read"
    /\ BadLine = 1
    /\ Len(rd.rets) = 3
    /\ rd.data = <<65>>
    /\ rd.rets[1].m = 2 /\ rd.rets[1].n = 1 /\ rd.rets[1].err = ErrHexByte
    /\ rd.rets[2].m = 0 /\ rd.rets[2].n = 0 /\ rd.rets[2].err = NoErr
    /\ rd.rets[3].m > 0 /\ rd.rets[3].n = 0 /\ rd.rets[3].err = ErrHexByte

----------------------------------------------------------------------------
(* The header codec under check: an encoder is built, encodes a bounded     *)
(* string, and DecodeHeader reads the result back.                          *)
MaxShift == 2
MaxPad == 24

\* "ISO-8859-1"
Latin1 == <<73, 83, 79, 45, 56, 56, 53, 57, 45, 49>>

\* "=?a?Q?b?=", printable ASCII that has the shape of an encoded-word
WordShaped == <<EQ, QM, 97, QM, 81, QM, 98, QM, EQ>>

\* 'a', '=', e-acute, the euro sign, a G clef, and a lone continuation byte
HeaderChars == {<<97>>, <<EQ>>, <<195, 169>>, <<226, 130, 172>>,
                <<240, 157, 132, 158>>, <<128>>}

HeaderTails == {<<>>, <<SP>>, WordShaped}

HeaderCharsets == {UTF8, Latin1}

\* "Q", "B", "q" and an encoding NewHeaderEncoder rejects
HeaderEncodings == {Q, B, <<113>>, <<88>>}

HeaderInputs ==
    {Repeat(<<97>>, j) \o Repeat(c, k) \o t :
        j \in 0..MaxShift, c \in HeaderChars, k \in 0..MaxPad, t \in HeaderTails}

InitHeader ==
    /\ pc = "hnew"
    /\ hcfg \in [charset : HeaderCharsets, enc : HeaderEncodings]
    /\ hin \in HeaderInputs
    /\ hout = <<>>
    /\ hdec = "none"
    /\ htoks = <<>>
    /\ IdleCodec /\ IdleEnc /\ IdleRead /\ IdleMail /\ IdleLine /\ IdleSend

\* e, err := NewHeaderEncoder(charset, enc)
CallNewHeaderEncoder ==
    /\ pc = "hnew"
    /\ hcfg' = NewHeaderEncoder(hcfg.charset, hcfg.enc)
    /\ pc' = IF hcfg'.err = NoErr THEN "hready" ELSE "hrejected"
    /\ UNCHANGED <<hin, hout, hdec, htoks, codecVars, encVars, readVars, mailVars, lineVars, sendVars>>

\* e.EncodeHeader(s)
CallEncodeHeader ==
    /\ pc = "hready"
    /\ hout' = EncodeHeader(hcfg, hin)
    /\ pc' = "hencoded"
    /\ UNCHANGED <<hcfg, hin, hdec, htoks, codecVars, encVars, readVars, mailVars, lineVars, sendVars>>

\* text, charset, err := DecodeHeader(e.EncodeHeader(s))
CallDecodeHeader ==
    /\ pc = "hencoded"
    /\ hdec' = DecodeHeader(hout)
    /\ pc' = "hdecoded"
    /\ UNCHANGED <<hcfg, hin, hout, htoks, codecVars, encVars, readVars, mailVars, lineVars, sendVars>>

NextHeader == CallNewHeaderEncoder \/ CallEncodeHeader \/ CallDecodeHeader

SpecHeader == InitHeader /\ [][NextHeader]_vars

----------------------------------------------------------------------------
(* Claims about the header codec.                                           *)

\* "\r\n ", what splitWord puts between two encoded-words
Fold == <<CR, LF, SP>>

\* the index of the first Fold in s at or after i, -1 when there is none
RECURSIVE FoldFrom(_, _)
FoldFrom(s, i) ==
    IF i + 3 > Len(s) THEN -1
    ELSE IF Slice(s, i, i + 3) = Fold THEN i ELSE FoldFrom(s, i + 1)

\* the encoded-words of an encoder output: its pieces between folds
RECURSIVE WordsFrom(_, _)
WordsFrom(s, i) ==
    LET k == FoldFrom(s, i) IN
    IF k = -1 THEN <<Slice(s, i, Len(s))>>
    ELSE <<Slice(s, i, k)>> \o WordsFrom(s, k + 3)

WordsOf(s) == WordsFrom(s, 0)

\* the payload of an encoded-word built by e, decoded
PayloadOf(e, word) ==
    LET p == Slice(word, openWordLen(e), Len(word) - 2) IN
    IF ToUpper(e.encoding) = B THEN B64Decode(p).out ELSE qDecode(p).out

\* the offsets of s at which the words ws of e end
RECURSIVE WordEnds(_, _, _)
WordEnds(e, ws, k) ==
    IF k = 0 THEN 0 ELSE WordEnds(e, ws, k - 1) + Len(PayloadOf(e, ws[k]))

\* a word boundary at offset i of s falls between two code points
BetweenCodePoints(s, i) == i <= 0 \/ i >= Len(s) \/ RuneStart(At(s, i))

Utf8Encoded ==
    /\ pc \in {"hencoded", "hdecoded"}
    /\ ToUpper(hcfg.charset) = UTF8
    /\ needsEncoding(hin)

\* C3: with a UTF-8 encoder, every encoded-word of EncodeHeader(s) is at
\* most 75 bytes long and no code point of s is spread over two words, for
\* any byte content of s
C3_WordLength ==
    Utf8Encoded =>
        LET ws == WordsOf(hout) IN
        \A k \in 1..Len(ws) :
            /\ Len(ws[k]) <= maxEncodedWordLen
            /\ BetweenCodePoints(hin, WordEnds(hcfg, ws, k))

\* C4: DecodeHeader(EncodeHeader(s)) returns s and a nil error, for every
\* string and every accepted encoder
C4_HeaderRoundTrip ==
    pc = "hdecoded" => hdec.err = NoErr /\ hdec.text = hin

----------------------------------------------------------------------------
(* gomail under check: a message is composed, then exported step by step.   *)
MaxParts == 2
MaxAttachments == 2
MaxBody == 1
MaxValues == 2

\* filepath.Base(path): the last element of path, its trailing slashes
\* removed; "." for the empty path, "/" for a path of slashes only
Base(path) ==
    LET ends == {n \in 0..Len(path) :
                    /\ \A j \in n..(Len(path) - 1) : At(path, j) = SLASH
                    /\ n > 0 => At(path, n - 1) # SLASH}
        n    == CHOOSE e \in ends : TRUE
        cuts == {i \in 0..(n - 1) : At(path, i) = SLASH}
        from == IF cuts = {} THEN 0
                ELSE (CHOOSE c \in cuts : \A o \in cuts : o <= c) + 1
    IN IF path = <<>> THEN <<DOT>>
       ELSE IF n = 0 THEN <<SLASH>>
       ELSE Slice(path, from, n)

\* the file name "/tmp/a.pdf": a directory, and an extension the MIME table
\* knows
FileNames == {<<SLASH, 116, 109, 112, SLASH, 97, DOT, 112, 100, 102>>}

\* readFile(filename) when it succeeds
FileContent(name) == IF Ext(name) = <<>> THEN <<>> ELSE <<37, 80>>

ErrReadFile == "open: no such file"

\* header values: a text of ASCII and a text that needs encoding, an
\* address and a date
HeaderTexts == {<<97>>, <<233>>}
HeaderText == <<233>>
Address == <<97, AT, 120>>
Dates == {[year |-> 2014, month |-> 6, day |-> 25, hour |-> 17, minute |-> 46,
           zone |-> <<85, 84, 67>>]}

InitMail ==
    /\ pc = "compose"
    /\ msg \in {NewCustomMessage(UTF8, e) : e \in {QuotedPrintable, Base64}}
    /\ w = "none"
    /\ res = "none"
    /\ IdleCodec /\ IdleHeader /\ IdleEnc /\ IdleRead /\ IdleLine /\ IdleSend

\* the number of values a header holds in the fields of fs
RECURSIVE CountValues(_, _)
CountValues(h, fs) ==
    IF fs = {} THEN 0
    ELSE LET f == CHOOSE g \in fs : TRUE
         IN Len(h[f]) + CountValues(h, fs \ {f})

\* a header has at most MaxValues values in all
Fits(h) == CountValues(h, DOMAIN h) <= MaxValues

\* the message with the header h, while h is within the bound
WithHeader(h) ==
    /\ pc = "compose"
    /\ Fits(h)
    /\ msg' = [msg EXCEPT !.header = h]
    /\ UNCHANGED <<pc, w, res, codecVars, headerVars, encVars, readVars, lineVars, sendVars>>

\* msg.SetHeader(field, value)
SetHeader(field, value) ==
    WithHeader(Put(msg.header, field, <<encodeHeader(msg, value)>>))

\* msg.AddHeader(field, value)
AddHeader(field, value) ==
    WithHeader(Put(msg.header, field,
                   Appended(msg.header, field, encodeHeader(msg, value))))

\* msg.SetAddressHeader(field, address, name)
SetAddressHeader(field, address, name) ==
    WithHeader(Put(msg.header, field, <<buildAddressHeader(msg, address, name)>>))

\* msg.AddAddressHeader(field, address, name)
AddAddressHeader(field, address, name) ==
    WithHeader(Put(msg.header, field,
                   Appended(msg.header, field, buildAddressHeader(msg, address, name))))

\* msg.SetDateHeader(field, date)
SetDateHeader(field, date) ==
    WithHeader(Put(msg.header, field, <<buildDateHeader(date)>>))

\* msg.AddDateHeader(field, date)
AddDateHeader(field, date) ==
    WithHeader(Put(msg.header, field,
                   Appended(msg.header, field, buildDateHeader(date))))

\* msg.DelHeader(field)
DelHeader(field) == WithHeader(Delete(msg.header, field))

\* msg.SetBody(contentType, body)
SetBody(contentType, body) ==
    /\ pc = "compose"
    /\ msg' = [msg EXCEPT !.parts =
                 <<[contentType |-> contentType, body |-> body, writer |-> FALSE]>>]
    /\ UNCHANGED <<pc, w, res, codecVars, headerVars, encVars, readVars, lineVars, sendVars>>

\* msg.AddAlternative(contentType, body)
AddAlternative(contentType, body) ==
    /\ pc = "compose"
    /\ Len(msg.parts) < MaxParts
    /\ msg' = [msg EXCEPT !.parts =
                 Append(@, [contentType |-> contentType, body |-> body, writer |-> FALSE])]
    /\ UNCHANGED <<pc, w, res, codecVars, headerVars, encVars, readVars, lineVars, sendVars>>

\* msg.GetBodyWriter(contentType): the part keeps the buffer the caller
\* writes to
GetBodyWriter(contentType) ==
    /\ pc = "compose"
    /\ Len(msg.parts) < MaxParts
    /\ msg' = [msg EXCEPT !.parts =
                 Append(@, [contentType |-> contentType, body |-> <<>>, writer |-> TRUE])]
    /\ UNCHANGED <<pc, w, res, codecVars, headerVars, encVars, readVars, lineVars, sendVars>>

\* a Write of p on the writer GetBodyWriter returned for part k
BodyWrite(k, p) ==
    /\ pc = "compose"
    /\ k \in 1..Len(msg.parts)
    /\ msg.parts[k].writer
    /\ Len(msg.parts[k].body) + Len(p) <= MaxBody
    /\ msg' = [msg EXCEPT !.parts[k].body = @ \o p]
    /\ UNCHANGED <<pc, w, res, codecVars, headerVars, encVars, readVars, lineVars, sendVars>>

\* msg.Attach(filename) when readFile succeeds: the attachment is named by
\* the last element of the path
Attach(name) ==
    /\ pc = "compose"
    /\ Len(msg.attachments) < MaxAttachments
    /\ msg' = [msg EXCEPT !.attachments =
                 Append(@, [name |-> Base(name), content |-> FileContent(name)])]
    /\ res' = "none"
    /\ UNCHANGED <<pc, w, codecVars, headerVars, encVars, readVars, lineVars, sendVars>>

\* msg.Attach(filename) when readFile fails
AttachFails ==
    /\ pc = "compose"
    /\ res' = ErrReadFile
    /\ UNCHANGED <<pc, msg, w, codecVars, headerVars, encVars, readVars, lineVars, sendVars>>

\* Export, line 19, on a message not exported before or exported already
ExportBegin ==
    /\ pc \in {"compose", "exported"}
    /\ w' = newMessageWriter(msg)
    /\ res' = [k |-> 0, out |-> "none"]
    /\ pc' = "open mixed"
    /\ msg' = MessageAfter(msg, w')
    /\ UNCHANGED <<codecVars, headerVars, encVars, readVars, lineVars, sendVars>>

\* Export, lines 21-23
ExportOpenMixed ==
    /\ pc = "open mixed"
    /\ w' = IF isMixed(msg) THEN openMultipart(w, "mixed") ELSE w
    /\ pc' = "open alternative"
    /\ msg' = MessageAfter(msg, w')
    /\ UNCHANGED <<res, codecVars, headerVars, encVars, readVars, lineVars, sendVars>>

\* Export, lines 24-26
ExportOpenAlternative ==
    /\ pc = "open alternative"
    /\ w' = IF isAlternative(msg) THEN openMultipart(w, "alternative") ELSE w
    /\ pc' = "parts"
    /\ msg' = MessageAfter(msg, w')
    /\ UNCHANGED <<res, codecVars, headerVars, encVars, readVars, lineVars, sendVars>>

\* Export, lines 28-41: one turn of the loop over the parts
ExportPart ==
    /\ pc = "parts"
    /\ res.k < Len(msg.parts)
    /\ LET part == msg.parts[res.k + 1]
           r    == writeBody(writeHeader(w, PartHeader(msg, part)),
                             w.heap.bodies[res.k + 1],
                             msg.encoding)
       IN /\ w' = r.w
          /\ IF r.panic
             THEN pc' = "panicked" /\ res' = [res EXCEPT !.out = "panic"]
             ELSE pc' = "parts" /\ res' = [res EXCEPT !.k = @ + 1]
    /\ msg' = MessageAfter(msg, w')
    /\ UNCHANGED <<codecVars, headerVars, encVars, readVars, lineVars, sendVars>>

\* Export, lines 42-44
ExportCloseAlternative ==
    /\ pc = "parts"
    /\ res.k = Len(msg.parts)
    /\ w' = IF isAlternative(msg) THEN closeMultipart(w) ELSE w
    /\ res' = [res EXCEPT !.k = 0]
    /\ pc' = "attachments"
    /\ msg' = MessageAfter(msg, w')
    /\ UNCHANGED <<codecVars, headerVars, encVars, readVars, lineVars, sendVars>>

\* Export, lines 46-61: one turn of the loop over the attachments
ExportAttachment ==
    /\ pc = "attachments"
    /\ res.k < Len(msg.attachments)
    /\ LET a == msg.attachments[res.k + 1]
           r == writeBody(writeHeader(w, AttachmentHeader(a)),
                          w.heap.contents[res.k + 1], Base64)
       IN w' = r.w
    /\ res' = [res EXCEPT !.k = @ + 1]
    /\ msg' = MessageAfter(msg, w')
    /\ UNCHANGED <<pc, codecVars, headerVars, encVars, readVars, lineVars, sendVars>>

\* Export, lines 62-66
ExportReturn ==
    /\ pc = "attachments"
    /\ res.k = Len(msg.attachments)
    /\ w' = IF isMixed(msg) THEN closeMultipart(w) ELSE w
    /\ res' = [res EXCEPT !.out = export(w')]
    /\ pc' = "exported"
    /\ msg' = MessageAfter(msg, w')
    /\ UNCHANGED <<codecVars, headerVars, encVars, readVars, lineVars, sendVars>>

ExportSteps ==
    \/ ExportBegin
    \/ ExportOpenMixed
    \/ ExportOpenAlternative
    \/ ExportPart
    \/ ExportCloseAlternative
    \/ ExportAttachment
    \/ ExportReturn

NextMail ==
    \/ \E v \in HeaderTexts : SetHeader("Date", v)
    \/ AddHeader("Date", HeaderText)
    \/ SetAddressHeader("From", Address, HeaderText)
    \/ AddAddressHeader("From", Address, HeaderText)
    \/ \E d \in Dates : SetDateHeader("Date", d)
    \/ \E d \in Dates : AddDateHeader("Date", d)
    \/ \E f \in {"Date", "From"} : DelHeader(f)
    \/ SetBody("text/plain", <<97>>)
    \/ AddAlternative("text/html", <<97>>)
    \/ GetBodyWriter("text/html")
    \/ \E k \in 1..MaxParts : BodyWrite(k, <<97>>)
    \/ \E name \in FileNames : Attach(name)
    \/ AttachFails
    \/ ExportSteps

SpecMail == InitMail /\ [][NextMail]_vars

----------------------------------------------------------------------------
(* Claims about the exported message.                                       *)

\* the value of the top-level Content-Type of an exported message
TopContentType(out) ==
    IF "Content-Type" \in DOMAIN out.Header THEN out.Header["Content-Type"][1]
    ELSE <<>>

\* v is the Content-Type value of a multipart envelope of the given kind
IsMultipart(v, kind) == Len(v) = 4 /\ v[1] = "multipart/" /\ v[2] = kind

\* the delimiters of the body that open a part with an envelope of that kind
EnvelopeParts(out, kind) ==
    {k \in 1..Len(out.Body) :
        /\ out.Body[k].tok = "part"
        /\ IsMultipart(out.Body[k].header["Content-Type"][1], kind)}

\* the body holds no delimiter at all
NoBoundary(out) == \A k \in 1..Len(out.Body) : out.Body[k].tok = "body"

\* the bytes of the body when it holds no delimiter
BodyBytes(out) == IF out.Body = <<>> THEN <<>> ELSE out.Body[1].bytes

\* every field of h is in the top-level header with the same value
InTopHeader(out, h) ==
    \A f \in DOMAIN h : f \in DOMAIN out.Header /\ out.Header[f] = h[f]

\* C5: the shape of the exported envelope as a function of the number P of
\* textual parts and the number A of attachments
C5_Envelope ==
    pc = "exported" =>
        LET P     == Len(msg.parts)
            A     == Len(msg.attachments)
            out   == res.out
            mixed == (P >= 1 /\ A >= 1) \/ A >= 2
            alt   == P >= 2
        IN /\ IsMultipart(TopContentType(out), "mixed") <=> mixed
           /\ EnvelopeParts(out, "mixed") = {}
           /\ (alt /\ ~mixed) =>
                 /\ IsMultipart(TopContentType(out), "alternative")
                 /\ EnvelopeParts(out, "alternative") = {}
           /\ (alt /\ mixed) =>
                 /\ EnvelopeParts(out, "alternative") = {1}
                 /\ out.Body[1].first
                 /\ out.Body[1].boundary = TopContentType(out)[4]
           /\ ~alt =>
                 /\ ~IsMultipart(TopContentType(out), "alternative")
                 /\ EnvelopeParts(out, "alternative") = {}
           /\ (~mixed /\ ~alt /\ P = 1) =>
                 /\ InTopHeader(out, PartHeader(msg, msg.parts[1]))
                 /\ NoBoundary(out) /\ Len(out.Body) <= 1
                 /\ BodyBytes(out) = (IF msg.encoding = Base64
                                      THEN WriteBodyBase64(msg.parts[1].body).out
                                      ELSE WriteBodyQp(msg.parts[1].body).out)
           /\ (~mixed /\ ~alt /\ A = 1) =>
                 /\ InTopHeader(out, AttachmentHeader(msg.attachments[1]))
                 /\ NoBoundary(out) /\ Len(out.Body) <= 1
                 /\ BodyBytes(out) = WriteBodyBase64(msg.attachments[1].content).out
           /\ (P = 0 /\ A = 0) => out.Body = <<>>

\* a message with two textual parts and an attachment has been exported:
\* the alternative envelope is the first part of the mixed one
C5_Witness ==
    /\ pc = "exported"
    /\ Len(msg.parts) = 2 /\ Len(msg.attachments) >= 1
    /\ IsMultipart(TopContentType(res.out), "mixed")
    /\ EnvelopeParts(res.out, "alternative") = {1}

----------------------------------------------------------------------------
(* The export of one textual part with a body long enough to be wrapped.    *)
MaxRun == 80

\* "a-grave" in UTF-8
AGrave == <<195, 160>>

BodyTails == {<<>>, <<CR, LF>>, <<LF>>, AGrave, AGrave \o <<CR, LF>>, <<EQ>>,
              <<SP, CR, LF, 48>>}

\* runs of '0' or of a byte that Encode escapes, then a short tail
BodyInputs ==
    {Repeat(<<c>>, k) \o t : c \in {48, 233}, k \in 0..MaxRun, t \in BodyTails}

InitBody ==
    /\ pc = "compose"
    /\ \E body \in BodyInputs, as \in {<<>>, <<[name |-> <<98>>, content |-> <<>>]>>} :
          msg = [NewMessage EXCEPT
                   !.parts = <<[contentType |-> "text/plain", body |-> body,
                                writer |-> FALSE]>>,
                   !.attachments = as]
    /\ w = "none"
    /\ res = "none"
    /\ IdleCodec /\ IdleHeader /\ IdleEnc /\ IdleRead /\ IdleLine /\ IdleSend

SpecBody == InitBody /\ [][ExportSteps]_vars

\* the lines of s from index i: the runs of bytes between line ends, a line
\* end being CR LF or a bare LF; the bytes after the last line end are a line
RECURSIVE LinesOf(_, _)
LinesOf(s, i) ==
    LET k == IndexFrom(s, i, LF) IN
    IF k = -1 THEN <<Slice(s, i, Len(s))>>
    ELSE <<Slice(s, i, IF k > i /\ At(s, k - 1) = CR THEN k - 1 ELSE k)>>
         \o LinesOf(s, k + 1)

\* the lines of the quoted-printable bodies written so far
QpBodyLines ==
    IF pc = "compose" THEN {}
    ELSE UNION {Range(LinesOf(w.buf[k].bytes, 0)) :
                  k \in {j \in 1..Len(w.buf) :
                           /\ w.buf[j].tok = "body"
                           /\ w.buf[j].encoding = QuotedPrintable}}

\* C2 as stated: every line of a quoted-printable body has at most 78 bytes
\* before its CR LF or LF
C2_Original == \A l \in QpBodyLines : Len(l) <= maxLineLen

\* C2: every line of a quoted-printable body has at most 78 bytes before its
\* terminator, the terminator being CR LF, a bare LF, or the '=' CR LF of a
\* soft break; a line of 79 bytes ends with the '=' of a soft break
C2_LineLength ==
    \A l \in QpBodyLines :
        \/ Len(l) <= maxLineLen
        \/ Len(l) = maxLineLen + 1 /\ At(l, maxLineLen) = EQ

\* a body of more than 78 bytes has been exported and wrapped: a line of 78
\* bytes and a soft break, then the rest
C2_Witness ==
    /\ pc = "exported"
    /\ Len(msg.parts[1].body) > maxLineLen
    /\ \E l \in QpBodyLines : Len(l) = maxLineLen + 1 /\ At(l, maxLineLen) = EQ
    /\ \E l \in QpBodyLines : Len(l) = maxLineLen

----------------------------------------------------------------------------
(* DecodeHeader under check on header values put together from pieces:      *)
(* encoded-words that decode, strings of the same shape that do not, plain  *)
(* text and white space.  htoks keeps the pieces, hin their concatenation.  *)
MaxItems == 3

\* "=?a?Q?x?=": charset a, decodes to "x"
WordAQ == [kind |-> "word", bytes |-> <<EQ, QM, 97, QM, 81, QM, 120, QM, EQ>>,
           charset |-> <<97>>, text |-> <<120>>]

\* "=?a?b?eQ==?=": charset a, decodes to "y"
WordAB == [kind |-> "word", bytes |-> <<EQ, QM, 97, QM, 98, QM, 101, 81, EQ, EQ, QM, EQ>>,
           charset |-> <<97>>, text |-> <<121>>]

\* "=?b?q?_=7A?=": charset b, decodes to " z"
WordBQ == [kind |-> "word", bytes |-> <<EQ, QM, 98, QM, 113, QM, US, EQ, 55, 65, QM, EQ>>,
           charset |-> <<98>>, text |-> <<SP, 122>>]

\* "=?b?Q?=ZZ?=": no hex digits after '='
BadHex == [kind |-> "bad", bytes |-> <<EQ, QM, 98, QM, 81, QM, EQ, 90, 90, QM, EQ>>,
           charset |-> <<98>>, text |-> <<>>]

\* "=?b?Q?x=4?=": the payload ends inside '=XX'
BadShort == [kind |-> "bad", bytes |-> <<EQ, QM, 98, QM, 81, QM, 120, EQ, 52, QM, EQ>>,
             charset |-> <<98>>, text |-> <<>>]

\* "=?b?B?e?=": not base64
BadB64 == [kind |-> "bad", bytes |-> <<EQ, QM, 98, QM, 66, QM, 101, QM, EQ>>,
           charset |-> <<98>>, text |-> <<>>]

\* "t=": plain text
PlainText == [kind |-> "text", bytes |-> <<116, EQ>>, charset |-> <<>>, text |-> <<>>]

HeaderPieces == {WordAQ, WordAB, WordBQ, BadHex, BadShort, BadB64, PlainText}

\* nothing, a space and a tab, or a line fold
HeaderSeps == {<<>>, <<SP, TAB>>, <<CR, LF, SP>>}

SpaceTok(sep) == [kind |-> "space", bytes |-> sep, charset |-> <<>>, text |-> <<>>]

\* the pieces of a sequence of <<piece, separator>> items, in order
RECURSIVE PiecesOf(_, _)
PiecesOf(items, k) ==
    IF k > Len(items) THEN <<>>
    ELSE <<items[k][1]>>
         \o (IF items[k][2] = <<>> THEN <<>> ELSE <<SpaceTok(items[k][2])>>)
         \o PiecesOf(items, k + 1)

\* the bytes of the first n pieces
RECURSIVE Flat(_, _)
Flat(toks, n) == IF n = 0 THEN <<>> ELSE Flat(toks, n - 1) \o toks[n].bytes

InitDecode ==
    /\ pc = "hraw"
    /\ \E items \in BSeq(HeaderPieces \X HeaderSeps, MaxItems) :
          /\ htoks = PiecesOf(items, 1)
          /\ hin = Flat(htoks, Len(htoks))
    /\ hcfg = "none"
    /\ hout = <<>>
    /\ hdec = "none"
    /\ IdleCodec /\ IdleEnc /\ IdleRead /\ IdleMail /\ IdleLine /\ IdleSend

\* text, charset, err := DecodeHeader(header)
CallDecodeRaw ==
    /\ pc = "hraw"
    /\ hdec' = DecodeHeader(hin)
    /\ pc' = "hrawdone"
    /\ UNCHANGED <<hcfg, hin, hout, htoks, codecVars, encVars, readVars, mailVars, lineVars, sendVars>>

SpecDecode == InitDecode /\ [][CallDecodeRaw]_vars

\* the pieces of the header value that are encoded-words and decode
GoodWords == {k \in 1..Len(htoks) : htoks[k].kind = "word"}

\* the charset labels of the encoded-words that decode
GoodLabels == {htoks[k].charset : k \in GoodWords}

\* C11: DecodeHeader returns an error, an empty text and an empty charset
\* when two encoded-words that decode carry different charsets; the common
\* charset when they all carry the same one; an empty charset when no
\* encoded-word decodes
C11_Charsets ==
    pc = "hrawdone" =>
        /\ Cardinality(GoodLabels) >= 2 =>
              hdec.err = ErrCharsets /\ hdec.text = <<>> /\ hdec.charset = <<>>
        /\ Cardinality(GoodLabels) = 1 =>
              hdec.err = NoErr /\ hdec.charset \in GoodLabels
        /\ GoodLabels = {} => hdec.err = NoErr /\ hdec.charset = <<>>

\* two encoded-words of charsets a and b, a fold between them, were decoded
\* and refused
C11_Witness ==
    /\ pc = "hrawdone"
    /\ htoks = <<WordAQ, SpaceTok(<<CR, LF, SP>>), WordBQ>>
    /\ hdec.err = ErrCharsets /\ hdec.text = <<>>

\* sequence a ends with sequence b
EndsWith(a, b) == Len(b) <= Len(a) /\ SubSeq(a, Len(a) - Len(b) + 1, Len(a)) = b

\* pieces k and k + 2 are encoded-words that decode and piece k + 1 is white
\* space
AdjacentWords(k) ==
    /\ k + 2 <= Len(htoks)
    /\ htoks[k].kind = "word" /\ htoks[k + 1].kind = "space"
    /\ htoks[k + 2].kind = "word"

\* C12: when DecodeHeader returns no error, the white space between two
\* encoded-words that decode is deleted: the text of the second follows the
\* text of the first directly in the output, along every chain of words
C12_SpaceDeleted ==
    (pc = "hrawdone" /\ hdec.err = NoErr) =>
        \A k \in 1..Len(htoks) :
            AdjacentWords(k) =>
                LET upTo == DecodeHeader(Flat(htoks, k)).text IN
                /\ EndsWith(upTo, htoks[k].text)
                /\ IsPrefix(upTo \o htoks[k + 2].text, hdec.text)

\* three encoded-words separated by a fold and by a space and a tab were
\* decoded to "xyx"
C12_Witness ==
    /\ pc = "hrawdone"
    /\ htoks = <<WordAQ, SpaceTok(<<CR, LF, SP>>), WordAB, SpaceTok(<<SP, TAB>>), WordAQ>>
    /\ hdec.err = NoErr
    /\ hdec.text = <<120, 121, 120>>

\* the pieces that have the shape of an encoded-word and fail to decode
BadWords == {k \in 1..Len(htoks) : htoks[k].kind = "bad"}

\* C13: a string that has the shape of an encoded-word and whose payload
\* fails to decode causes no error, is copied to the output byte for byte,
\* and its charset label is not part of the returned charset nor of the
\* comparison of charsets
C13_BadWordVerbatim ==
    (pc = "hrawdone" /\ BadWords # {}) =>
        /\ hdec.err # NoErr => Cardinality(GoodLabels) >= 2
        /\ hdec.err = NoErr =>
              /\ hdec.charset \in (IF GoodLabels = {} THEN {<<>>} ELSE GoodLabels)
              /\ \A k \in BadWords :
                    LET upTo == DecodeHeader(Flat(htoks, k)).text IN
                    /\ EndsWith(upTo, htoks[k].bytes)
                    /\ IsPrefix(upTo, hdec.text)

\* "=?b?Q?=ZZ?=", white space and a word of charset a were decoded: no
\* error, charset a, and the first string is in the output as it was
C13_Witness ==
    /\ pc = "hrawdone"
    /\ htoks = <<BadHex, SpaceTok(<<SP, TAB>>), WordAQ>>
    /\ hdec.err = NoErr
    /\ hdec.charset = <<97>>
    /\ hdec.text = BadHex.bytes \o <<SP, TAB>> \o <<120>>

----------------------------------------------------------------------------
(* Export of a quoted-printable body and the slice the line writer is       *)
(* handed: encoder.Write passes dbuf[:n] of a buffer of 3*len(body) bytes,  *)
(* and qpLineWriter.Write slices it up to maxLineLen-lineLen+2.             *)

\* C14 as stated: Export of a message with a quoted-printable body returns;
\* no Write of the line writer stops on a slice bound out of range
C14_ExportReturns == pc # "panicked"

----------------------------------------------------------------------------
(* The line writers under check, one writer and two Write calls on it: the  *)
(* first call leaves the column anywhere a Write can leave it, the second   *)
(* is the call under test.  lw keeps the writer's column, what reached the  *)
(* writer below it (out), the bytes given so far (ins), the last call's     *)
(* argument length and return value, and whether the call stopped on an     *)
(* index or slice bound out of range.                                       *)
MaxChunk == 80
MaxB64Chunk == 160

\* n bytes of the base64 alphabet, no two neighbours equal
B64Text(n) == [j \in 1..n |-> 65 + (j % 26)]

\* what follows the run of '0' in the second quoted-printable call
LineTails == {<<>>, <<EQ, 67, 51>>, <<EQ, 67, 51, EQ, 65, 48>>, <<LF>>, <<CR, LF>>}

\* the bytes between len(p) and cap(p): none, zeroes, or stale line feeds
LineRests == {<<>>, <<0, 0>>, <<LF, LF>>}

InitLine ==
    /\ pc = "line0"
    /\ \E kind \in {Base64, QuotedPrintable} :
          lw = [kind |-> kind, lineLen |-> 0, out |-> <<>>, ins |-> <<>>,
                plen |-> 0, n |-> 0, panic |-> FALSE]
    /\ IdleCodec /\ IdleHeader /\ IdleEnc /\ IdleRead /\ IdleMail /\ IdleSend

\* w.Write(p) on the base64LineWriter
LineWriteBase64 ==
    /\ pc \in {"line0", "line1"}
    /\ lw.kind = Base64
    /\ \E k \in 0..(IF pc = "line0" THEN maxLineLen ELSE MaxB64Chunk) :
          LET p == B64Text(k)
              r == B64LineWrite(p, lw.lineLen)
          IN lw' = [lw EXCEPT !.lineLen = r.lineLen, !.out = @ \o r.out,
                              !.ins = @ \o p, !.plen = Len(p), !.n = r.n]
    /\ pc' = IF pc = "line0" THEN "line1" ELSE "line2"
    /\ UNCHANGED <<codecVars, headerVars, encVars, readVars, mailVars, sendVars>>

\* w.Write(p) on the qpLineWriter, p a slice with the bytes rest behind it
LineWriteQp ==
    /\ pc \in {"line0", "line1"}
    /\ lw.kind = QuotedPrintable
    /\ \E k \in 0..(IF pc = "line0" THEN maxLineLen - 1 ELSE MaxChunk),
          t \in (IF pc = "line0" THEN {<<>>, <<LF>>} ELSE LineTails),
          rest \in (IF pc = "line0" THEN {<<0, 0>>} ELSE LineRests) :
          LET p == Repeat(<<48>>, k) \o t
              r == QpLineWrite(p, rest, lw.lineLen)
          IN lw' = [lw EXCEPT !.lineLen = r.lineLen, !.out = @ \o r.out,
                              !.ins = @ \o p, !.plen = Len(p), !.n = r.n,
                              !.panic = r.panic]
    /\ pc' = IF pc = "line0" THEN "line1" ELSE "line2"
    /\ UNCHANGED <<codecVars, headerVars, encVars, readVars, mailVars, sendVars>>

NextLine == LineWriteBase64 \/ LineWriteQp

SpecLine == InitLine /\ [][NextLine]_vars

\* s without the byte sequence d wherever it occurs (d does not overlap
\* itself)
Without(s, d) ==
    LET starts == {i \in 0..(Len(s) - Len(d)) : Slice(s, i, i + Len(d)) = d}
        tagged == [j \in 1..Len(s) |-> <<j - 1, s[j]>>]
        kept   == SelectSeq(tagged,
                            LAMBDA e : ~(\E i \in starts : i <= e[1] /\ e[1] < i + Len(d)))
    IN [k \in 1..Len(kept) |-> kept[k][2]]

\* C19: after every Write on a base64 line writer the column is within
\* 0..78, every line written but the last has exactly 78 characters and the
\* last at most 78, the output without its CR LF is the concatenation of the
\* inputs, and the call returned len(p)
C19_Base64Lines ==
    (pc \in {"line1", "line2"} /\ lw.kind = Base64) =>
        LET ls == LinesOf(lw.out, 0) IN
        /\ lw.lineLen \in 0..maxLineLen
        /\ \A j \in 1..(Len(ls) - 1) : Len(ls[j]) = maxLineLen
        /\ Len(ls[Len(ls)]) <= maxLineLen
        /\ Len(ls[Len(ls)]) = lw.lineLen
        /\ Without(lw.out, <<CR, LF>>) = lw.ins
        /\ lw.n = lw.plen
        /\ ~lw.panic

\* a second Write that started in the middle of a line and wrote more than
\* two lines
C19_Witness ==
    /\ pc = "line2"
    /\ lw.kind = Base64
    /\ Len(LinesOf(lw.out, 0)) = 3
    /\ lw.plen > maxLineLen
    /\ Len(lw.ins) - lw.plen \in 1..(maxLineLen - 1)
    /\ lw.lineLen > 0

\* the indexes of s where the soft break '=' CR LF starts
SoftBreaks(s) ==
    {i \in 0..(Len(s) - 3) : Slice(s, i, i + 3) = <<EQ, CR, LF>>}

\* C20 as stated: after every Write of well-formed escaped text on a
\* quoted-printable line writer, no soft break stands one or two bytes
\* behind the '=' of a triplet, and the output without its soft breaks is
\* the concatenation of the inputs
C20_SoftBreaks ==
    (pc \in {"line1", "line2"} /\ lw.kind = QuotedPrintable) =>
        /\ \A i \in SoftBreaks(lw.out) :
              /\ ~(i >= 1 /\ At(lw.out, i - 1) = EQ)
              /\ ~(i >= 2 /\ At(lw.out, i - 2) = EQ)
        /\ Without(lw.out, <<EQ, CR, LF>>) = lw.ins

----------------------------------------------------------------------------
(* mailer: Send.  A header is a function from field names to lists of       *)
(* values, a value a byte string.  sd keeps the message's header, whether   *)
(* reading its body fails, what Send has computed, and the sendMail calls   *)
(* made so far with what each returned.                                     *)
MaxFields == 3


ErrNoFrom == "mailer: invalid message, \"From\" field is absent"
ErrAddress == "mail: invalid address"
ErrRead == "read error"
ErrTransport == "sendMail error"

\* strings.Contains(s, sub)
Contains(s, sub) ==
    \E i \in 0..(Len(s) - Len(sub)) : Slice(s, i, i + Len(sub)) = sub

\* an addr-spec of the values used here: bytes around one '@', no space,
\* no angle bracket
IsAddrSpec(a) ==
    /\ \E i \in 1..(Len(a) - 2) : At(a, i) = AT
    /\ \A i \in 0..(Len(a) - 1) : At(a, i) \notin {SP, LT, GT}

\* parseAddress(field): mail.ParseAddress on "addr" and "name <addr>"
parseAddress(field) ==
    LET lt == IndexFrom(field, 0, LT)
        inner == Slice(field, lt + 1, Len(field) - 1)
    IN
    IF lt # -1 /\ Len(field) > 0 /\ At(field, Len(field) - 1) = GT /\ IsAddrSpec(inner)
    THEN [address |-> inner, err |-> NoErr]
    ELSE IF IsAddrSpec(field)
    THEN [address |-> field, err |-> NoErr]
    ELSE [address |-> <<>>, err |-> ErrAddress]

\* msg.Header.Get(key): the first value of the field, "" without one
Get(header, key) ==
    IF key \in DOMAIN header /\ Len(header[key]) > 0 THEN header[key][1] ELSE <<>>

\* getFrom(msg)
getFrom(header) ==
    LET sender == Get(header, "Sender")
        field  == IF sender = <<>> THEN Get(header, "From") ELSE sender
    IN IF field = <<>> THEN [address |-> <<>>, err |-> ErrNoFrom]
       ELSE parseAddress(field)

\* the destination fields with the Bcc field last
destinationFieldsBccLast == <<"To", "Cc", "Bcc">>

destinationFields == <<"Bcc", "To", "Cc">>

\* isInList(address, list)
isInList(address, list) == \E k \in 1..Len(list) : list[k] = address

\* getRecipients: the loop over the values of one field, from the j-th
RECURSIVE RecipientsOfField(_, _, _, _)
RecipientsOfField(field, values, j, acc) ==
    IF j > Len(values) THEN acc
    ELSE LET a == parseAddress(values[j]) IN
         RecipientsOfField(field, values, j + 1,
            IF a.err # NoErr THEN acc
            ELSE IF field = "Bcc"
            THEN IF ~isInList(a.address, acc.bcc)
                 THEN [acc EXCEPT !.bcc = Append(@, a.address)]
                 ELSE acc
            ELSE IF ~isInList(a.address, acc.bcc) /\ ~isInList(a.address, acc.recipients)
            THEN [acc EXCEPT !.recipients = Append(@, a.address)]
            ELSE acc)

\* getRecipients: the loop over destinationFields, from the k-th
RECURSIVE RecipientsFrom(_, _, _)
RecipientsFrom(header, k, acc) ==
    IF k > Len(destinationFields) THEN acc
    ELSE LET field == destinationFields[k] IN
         RecipientsFrom(header, k + 1,
            IF field \in DOMAIN header
            THEN RecipientsOfField(field, header[field], 1, acc)
            ELSE acc)

\* getRecipients(msg)
getRecipients(header) ==
    RecipientsFrom(header, 1, [recipients |-> <<>>, bcc |-> <<>>])

\* the bytes of a field name
FieldBytes(f) ==
    CASE f = "From"    -> <<70, 114, 111, 109>>
      [] f = "Sender"  -> <<83, 101, 110, 100, 101, 114>>
      [] f = "To"      -> <<84, 111>>
      [] f = "Cc"      -> <<67, 99>>
      [] f = "Bcc"     -> <<66, 99, 99>>
      [] f = "Subject" -> <<83, 117, 98, 106, 101, 99, 116>>
      [] f = "Date"    -> <<68, 97, 116, 101>>
      [] f = "Mime-Version" ->
            <<77, 105, 109, 101, 45, 86, 101, 114, 115, 105, 111, 110>>
      [] f = "Content-Type" ->
            <<67, 111, 110, 116, 101, 110, 116, 45, 84, 121, 112, 101>>

\* strings.Join(values, ", ") from the j-th value
RECURSIVE Join(_, _)
Join(values, j) ==
    IF j > Len(values) THEN <<>>
    ELSE values[j] \o (IF j < Len(values) THEN <<COMMA, SP>> ELSE <<>>)
         \o Join(values, j + 1)

\* flattenHeader: the Bcc lines for the recipient bcc, from the j-th value
RECURSIVE BccLines(_, _, _)
BccLines(values, bcc, j) ==
    IF j > Len(values) THEN <<>>
    ELSE (IF Contains(values[j], bcc)
          THEN FieldBytes("Bcc") \o <<COLON, SP>> \o values[j] \o <<CR, LF>>
          ELSE <<>>)
         \o BccLines(values, bcc, j + 1)

\* flattenHeader: the loop over the header's fields, taken in the order
\* given, from the k-th
RECURSIVE FlattenFrom(_, _, _, _)
FlattenFrom(header, bcc, order, k) ==
    IF k > Len(order) THEN <<CR, LF>>
    ELSE LET field == order[k] IN
         (IF field # "Bcc"
          THEN FieldBytes(field) \o <<COLON, SP>> \o Join(header[field], 1) \o <<CR, LF>>
          ELSE IF bcc # <<>> THEN BccLines(header[field], bcc, 1)
          ELSE <<>>)
         \o FlattenFrom(header, bcc, order, k + 1)

\* flattenHeader(msg, bcc), the range over the map visiting order
flattenHeader(header, bcc, order) == FlattenFrom(header, bcc, order, 1)

\* the sequences that hold each field of fs once
RECURSIVE Orders(_)
Orders(fs) ==
    IF fs = {} THEN {<<>>}
    ELSE UNION {{<<f>> \o o : o \in Orders(fs \ {f})} : f \in fs}

\* the orders in which a range over the map may visit its fields: the
\* language leaves the order open, so every order of them
MapOrders(header) == Orders(DOMAIN header)

\* header values
AddrA   == <<97, AT, 120>>
AddrBA  == <<98, 97, AT, 120>>
NamedA  == <<65, SP, LT, 97, AT, 120, GT>>
NamedC  == <<67, SP, LT, 99, AT, 120, GT>>
BadAddr == <<98, 97, 100>>
FromF   == <<70, SP, LT, 102, AT, 120, GT>>
SenderS == <<115, AT, 120>>
SendBody == <<104, 105>>

ToLists  == {<<>>, <<NamedC, AddrA>>, <<AddrA, NamedA>>, <<BadAddr, AddrBA>>}
CcLists  == {<<>>, <<AddrBA, NamedC>>}
BccLists == {<<>>, <<AddrA>>, <<AddrA, AddrBA>>, <<NamedA, AddrA>>, <<BadAddr, AddrBA>>}
SubjectLists == {<<>>, <<SendBody>>}
FromLists == {<<>>, <<FromF>>}
SenderLists == {<<>>, <<SenderS>>, <<BadAddr>>}

\* the header with the fields whose list of values is not empty
HeaderOf(from, sender, to, cc, bcc, subject) ==
    LET all == [f \in {"From", "Sender", "To", "Cc", "Bcc", "Subject"} |->
                  CASE f = "From" -> from [] f = "Sender" -> sender
                    [] f = "To" -> to [] f = "Cc" -> cc [] f = "Bcc" -> bcc
                    [] f = "Subject" -> subject]
    IN [f \in {g \in DOMAIN all : all[g] # <<>>} |-> all[f]]

\* the headers of at most MaxFields fields
Headers ==
    {h \in {HeaderOf(from, sender, to, cc, bcc, subject) :
               from \in FromLists, sender \in SenderLists, to \in ToLists,
               cc \in CcLists, bcc \in BccLists, subject \in SubjectLists} :
        Cardinality(DOMAIN h) <= MaxFields}

InitSend ==
    /\ pc = "send"
    /\ \E h \in Headers, readErr \in BOOLEAN :
          sd = [header |-> h, readErr |-> readErr,
                from |-> <<>>, bcc |-> <<>>, calls |-> <<>>, k |-> 0, err |-> NoErr]
    /\ IdleCodec /\ IdleHeader /\ IdleEnc /\ IdleRead /\ IdleMail /\ IdleLine

\* Send, lines 66-69: getFrom fails
SendNoFrom ==
    /\ pc = "send"
    /\ getFrom(sd.header).err # NoErr
    /\ sd' = [sd EXCEPT !.err = getFrom(sd.header).err]
    /\ pc' = "sent"
    /\ UNCHANGED <<codecVars, headerVars, encVars, readVars, mailVars, lineVars>>

\* Send, lines 66-76: reading the body fails
SendReadFails ==
    /\ pc = "send"
    /\ getFrom(sd.header).err = NoErr
    /\ sd.readErr
    /\ sd' = [sd EXCEPT !.from = getFrom(sd.header).address,
                        !.bcc = getRecipients(sd.header).bcc, !.err = ErrRead]
    /\ pc' = "sent"
    /\ UNCHANGED <<codecVars, headerVars, encVars, readVars, mailVars, lineVars>>

\* Send, lines 66-81: the call for the To and Cc recipients, which the
\* transport accepts or not
SendFirst ==
    /\ pc = "send"
    /\ getFrom(sd.header).err = NoErr
    /\ ~sd.readErr
    /\ \E order \in MapOrders(sd.header), ok \in BOOLEAN :
          LET from == getFrom(sd.header).address
              r    == getRecipients(sd.header)
              mail == flattenHeader(sd.header, <<>>, order) \o SendBody
          IN /\ sd' = [sd EXCEPT !.from = from, !.bcc = r.bcc, !.k = 1,
                         !.calls = Append(@, [from |-> from, to |-> r.recipients,
                                              msg |-> mail, ok |-> ok]),
                         !.err = IF ok THEN NoErr ELSE ErrTransport]
             /\ pc' = IF ok THEN "bcc" ELSE "sent"
    /\ UNCHANGED <<codecVars, headerVars, encVars, readVars, mailVars, lineVars>>

\* Send, lines 84-90: the call for the next Bcc recipient
SendBcc ==
    /\ pc = "bcc"
    /\ sd.k <= Len(sd.bcc)
    /\ \E order \in MapOrders(sd.header), ok \in BOOLEAN :
          LET to   == sd.bcc[sd.k]
              mail == flattenHeader(sd.header, to, order) \o SendBody
          IN /\ sd' = [sd EXCEPT !.k = @ + 1,
                         !.calls = Append(@, [from |-> sd.from, to |-> <<to>>,
                                              msg |-> mail, ok |-> ok]),
                         !.err = IF ok THEN NoErr ELSE ErrTransport]
             /\ pc' = IF ok THEN "bcc" ELSE "sent"
    /\ UNCHANGED <<codecVars, headerVars, encVars, readVars, mailVars, lineVars>>

\* Send, line 93
SendReturn ==
    /\ pc = "bcc"
    /\ sd.k > Len(sd.bcc)
    /\ pc' = "sent"
    /\ UNCHANGED <<sd, codecVars, headerVars, encVars, readVars, mailVars, lineVars>>

NextSend == SendNoFrom \/ SendReadFails \/ SendFirst \/ SendBcc \/ SendReturn

SpecSend == InitSend /\ [][NextSend]_vars

\* the addresses parsed from a list of values, unparsable values left out
ParsedOf(values) ==
    LET good == SelectSeq(values, LAMBDA v : parseAddress(v).err = NoErr)
    IN [k \in 1..Len(good) |-> parseAddress(good[k]).address]

\* list without the repetitions of its elements
Distinct(list) ==
    LET firsts == {k \in 1..Len(list) : \A j \in 1..(k - 1) : list[j] # list[k]}
        tagged == [k \in 1..Len(list) |-> <<k, list[k]>>]
        kept   == SelectSeq(tagged, LAMBDA e : e[1] \in firsts)
    IN [k \in 1..Len(kept) |-> kept[k][2]]

\* the values of a field, none when the field is absent
ValuesOf(header, field) == IF field \in DOMAIN header THEN header[field] ELSE <<>>

\* the distinct Bcc addresses of a header, in header order
BccAddresses(header) == Distinct(ParsedOf(ValuesOf(header, "Bcc")))

\* the distinct To and Cc addresses of a header that are not Bcc addresses
ToCcAddresses(header) ==
    Distinct(SelectSeq(ParsedOf(ValuesOf(header, "To")) \o ParsedOf(ValuesOf(header, "Cc")),
                       LAMBDA a : a \notin Range(BccAddresses(header))))

\* the recipients of the calls of a Send that runs to its end, in order
ExpectedCalls(header) ==
    <<ToCcAddresses(header)>>
    \o [k \in 1..Len(BccAddresses(header)) |-> <<BccAddresses(header)[k]>>]

\* the value the sender is parsed from: Sender, or From without a Sender
SenderField(header) ==
    IF "Sender" \in DOMAIN header THEN header["Sender"][1]
    ELSE IF "From" \in DOMAIN header THEN header["From"][1]
    ELSE <<>>

\* C15: the sendMail calls made so far are the first calls of the expected
\* order (one to the distinct To and Cc addresses that are not Bcc
\* addresses, then one to each distinct Bcc address in header order), each
\* with the address parsed from Sender, or from From without a Sender, as
\* sender; no call follows a call that failed; without From and Sender no
\* call is made and Send returns an error; a failed call's error is what
\* Send returns, and a Send that returns nil has made every call
C15_SendOrder ==
    LET calls == sd.calls
        exp   == ExpectedCalls(sd.header)
    IN
    /\ Len(calls) <= Len(exp)
    /\ \A i \in 1..Len(calls) :
          /\ calls[i].to = exp[i]
          /\ calls[i].from = parseAddress(SenderField(sd.header)).address
          /\ parseAddress(SenderField(sd.header)).err = NoErr
    /\ \A i \in 1..(Len(calls) - 1) : calls[i].ok
    /\ (SenderField(sd.header) = <<>>) =>
          /\ calls = <<>>
          /\ pc = "sent" => sd.err # NoErr
    /\ (pc = "sent" /\ calls # <<>> /\ ~calls[Len(calls)].ok) => sd.err = ErrTransport
    /\ (pc = "sent" /\ sd.err = NoErr) =>
          /\ Len(calls) = Len(exp)
          /\ \A i \in 1..Len(calls) : calls[i].ok

\* a Send that returned nil after three calls, for a message with a Sender,
\* a To address that is also a Bcc address and one that is not
C15_Witness ==
    /\ pc = "sent"
    /\ sd.err = NoErr
    /\ Len(sd.calls) = 3
    /\ "Sender" \in DOMAIN sd.header
    /\ sd.calls[1].to # <<>>
    /\ \E a \in Range(ParsedOf(ValuesOf(sd.header, "To"))) :
          a \in Range(BccAddresses(sd.header))

\* the values of the Bcc lines of a flattened message
BccValuesIn(mail) ==
    LET ls  == LinesOf(mail, 0)
        pre == FieldBytes("Bcc") \o <<COLON, SP>>
    IN {Slice(ls[k], Len(pre), Len(ls[k])) :
          k \in {j \in 1..Len(ls) : IsPrefix(pre, ls[j])}}

\* C16 as stated: the message of the first call holds no Bcc line; the
\* message of the call to a Bcc recipient holds a Bcc value naming that
\* recipient and no Bcc value naming another address
C16_BccConfidential ==
    \A i \in 1..Len(sd.calls) :
        IF i = 1 THEN BccValuesIn(sd.calls[i].msg) = {}
        ELSE /\ \E v \in BccValuesIn(sd.calls[i].msg) :
                   <<parseAddress(v).address>> = sd.calls[i].to
             /\ \A v \in BccValuesIn(sd.calls[i].msg) :
                   <<parseAddress(v).address>> = sd.calls[i].to

----------------------------------------------------------------------------
(* Export and the Message it reads.                                         *)

\* C17: every step of Export leaves the Message as it was: its header (the
\* fields and their lists of values), its parts and its attachments; so
\* does every step of an Export that follows another on the same message
C17_ExportFrame == [][pc' # "compose" => msg' = msg]_vars

\* an Export has returned for a message with a header field, two
\* parts and an attachment; the exported header has the Mime-Version and
\* Content-Type that the message's header has not; it is a map of the
\* writer's, and its Date is the very list of values the message holds
C17_Witness ==
    /\ pc = "exported"
    /\ DOMAIN msg.header = {"Date"}
    /\ Len(msg.parts) = 2
    /\ Len(msg.attachments) = 1
    /\ {"Mime-Version", "Content-Type", "Date"} \subseteq DOMAIN res.out.Header
    /\ res.out.Header["Date"] = msg.header["Date"]
    /\ w.header # "msg"
    /\ w.heap.maps[w.header]["Date"] = w.heap.maps["msg"]["Date"]

----------------------------------------------------------------------------
(* Encode, unit by unit.                                                    *)

\* the uppercase hexadecimal digit of d
UpperHex(d) == IF d < 10 THEN 48 + d ELSE 55 + d

\* a space or TAB at index i of s that ends the input or stands directly
\* before LF or before CR LF
BeforeLineEnd(s, i) ==
    \/ i = Len(s) - 1
    \/ (i + 1 < Len(s) /\ At(s, i + 1) = LF)
    \/ (i + 2 < Len(s) /\ At(s, i + 1) = CR /\ At(s, i + 2) = LF)

\* the unit of the byte at index i of s
UnitOf(s, i) ==
    LET c == At(s, i)
        escaped == <<EQ, UpperHex(c \div 16), UpperHex(c % 16)>>
    IN IF (c \in 33..126 /\ c # EQ) \/ c \in {CR, LF} THEN <<c>>
       ELSE IF c \in {SP, TAB}
       THEN IF ~BeforeLineEnd(s, i) THEN <<c>>
            ELSE IF c = SP THEN <<EQ, 50, 48>> ELSE <<EQ, 48, 57>>
       ELSE escaped

RECURSIVE UnitsFrom(_, _)
UnitsFrom(s, i) == IF i >= Len(s) THEN <<>> ELSE UnitOf(s, i) \o UnitsFrom(s, i + 1)

\* C18: Encode writes one unit per input byte: a visible ASCII byte other
\* than '=', a CR and a LF are copied; a space or TAB is copied unless it is
\* the last input byte or stands directly before LF or CR LF, and is then
\* written as "=20" or "=09"; any other byte is written as '=' and its two
\* uppercase hexadecimal digits.  The output has at most 3 * len(src) bytes
\* and no space or TAB in it stands directly before LF, CR LF or its end.
\* The units of all 256 byte values are compared on the inputs of one and
\* two bytes.
C18_EncodeUnits ==
    (pc \in {"encoded", "roundtrip"}) =>
        /\ enc = UnitsFrom(src, 0)
        /\ Len(enc) <= 3 * Len(src)
        /\ \A j \in 0..(Len(enc) - 1) :
              At(enc, j) \in {SP, TAB} =>
                 /\ j + 1 < Len(enc)
                 /\ At(enc, j + 1) # LF
                 /\ ~(j + 2 < Len(enc) /\ At(enc, j + 1) = CR /\ At(enc, j + 2) = LF)
        /\ Len(src) <= 1 =>
              \A b \in 0..255 :
                 /\ Encode(<<b>> \o src) = UnitOf(<<b>> \o src, 0) \o enc
                 /\ Len(UnitOf(<<b>> \o src, 0)) \in {1, 3}

\* an input with an escaped byte, a space before CR LF and a copied byte
C18_Witness ==
    /\ pc = "encoded"
    /\ \E i \in 0..(Len(src) - 3) :
          At(src, i) = SP /\ At(src, i + 1) = CR /\ At(src, i + 2) = LF
    /\ \E i \in 0..(Len(src) - 1) : At(src, i) = 233
    /\ Len(enc) = Len(src) + 4

----------------------------------------------------------------------------
(* The quoted-printable line writer: its column and the lines that fit.     *)

\* the number of bytes of s behind its last LF
SinceLastLF(s) ==
    LET lfs == {i \in 0..(Len(s) - 1) : At(s, i) = LF}
    IN IF lfs = {} THEN Len(s)
       ELSE Len(s) - 1 - (CHOOSE i \in lfs : \A j \in lfs : j <= i)

\* C22 as stated: after every Write on the quoted-printable line writer
\* that returned, lineLen is the number of bytes written since the last
\* line terminator in the output, and 0 when the output ends with one
C22_Column ==
    (pc \in {"line1", "line2"} /\ lw.kind = QuotedPrintable /\ ~lw.panic) =>
        lw.lineLen = SinceLastLF(lw.out)

\* the indexes in s of the bytes that are not part of a soft break, in order
KeptIndexes(s) ==
    LET tagged == [j \in 1..Len(s) |-> j - 1]
    IN SelectSeq(tagged,
                 LAMBDA e : ~(\E b \in SoftBreaks(s) : b <= e /\ e < b + 3))

\* the lines of s that end with LF, as pairs <<first index, index of LF>>
EndedLines(s) ==
    {<<a, e>> \in (0..(Len(s) - 1)) \X (0..(Len(s) - 1)) :
        /\ a <= e
        /\ At(s, e) = LF
        /\ (a = 0 \/ At(s, a - 1) = LF)
        /\ \A j \in a..(e - 1) : At(s, j) # LF}

\* the number of bytes of the line <<a, e>> of s before its LF or CR LF
ContentLen(s, l) ==
    IF l[2] > l[1] /\ At(s, l[2] - 1) = CR THEN l[2] - l[1] - 1 ELSE l[2] - l[1]

\* C21 as stated: after Write calls that returned, every line of the input
\* that has at most 78 bytes before its LF or CR LF stands in the output
\* with no soft break among its bytes
C21_NoBreakInFittingLine ==
    (pc \in {"line1", "line2"} /\ lw.kind = QuotedPrintable /\ ~lw.panic) =>
        LET kept == KeptIndexes(lw.out) IN
        /\ Len(kept) = Len(lw.ins)
        /\ \A l \in EndedLines(lw.ins) :
              ContentLen(lw.ins, l) <= maxLineLen =>
                 kept[l[2] + 1] - kept[l[1] + 1] = l[2] - l[1]

----------------------------------------------------------------------------
(* The streaming encoder and white space before a line end.                 *)

\* C23 as stated: whatever the Write calls the input was given in, what the
\* encoder has passed downstream holds no space or TAB directly followed
\* by LF or by CR LF (the calls all taken in full by the writer below)
C23_NoSpaceBeforeLineEnd ==
    (pc = "enc" /\ ecall.fails = 0) =>
        \A j \in 0..(Len(ew) - 1) :
            At(ew, j) \in {SP, TAB} =>
               /\ ~(j + 1 < Len(ew) /\ At(ew, j + 1) = LF)
               /\ ~(j + 2 < Len(ew) /\ At(ew, j + 1) = CR /\ At(ew, j + 2) = LF)

----------------------------------------------------------------------------
(* DecodeHeader and the bytes outside the encoded-words it decodes.         *)

\* what piece k of the header value leaves in the output: the text of an
\* encoded-word that decodes, nothing for white space between two of them,
\* and the piece's own bytes otherwise
KeptOf(k) ==
    IF htoks[k].kind = "word" THEN htoks[k].text
    ELSE IF /\ htoks[k].kind = "space"
            /\ 1 < k /\ k < Len(htoks)
            /\ htoks[k - 1].kind = "word" /\ htoks[k + 1].kind = "word"
    THEN <<>>
    ELSE htoks[k].bytes

RECURSIVE KeptFrom(_)
KeptFrom(k) == IF k > Len(htoks) THEN <<>> ELSE KeptOf(k) \o KeptFrom(k + 1)

\* C24 as stated: when DecodeHeader returns no error its output is the
\* header value with each decoded encoded-word replaced by its text and the
\* white space between two decoded encoded-words removed; every other byte,
\* the white space between a decoded word and plain text or a string that
\* fails to decode included, is there unchanged and in order
C24_OutsideBytesKept ==
    (pc = "hrawdone" /\ hdec.err = NoErr) => hdec.text = KeptFrom(1)

----------------------------------------------------------------------------
(* mailer.Send and the recipients of its calls.                             *)

\* C25 as stated: every sendMail call made by Send has a recipient
C25_RecipientsNotEmpty ==
    pc \in {"bcc", "sent"} => \A i \in 1..Len(sd.calls) : sd.calls[i].to # <<>>

----------------------------------------------------------------------------
(* Export and the nesting of the multipart envelopes, read from the         *)
(* writer's header and from the delimiters written so far.                  *)

\* the delimiters written so far that open a part or close an envelope
PartsWritten == {k \in 1..Len(w.buf) : w.buf[k].tok = "part"}
ClosesWritten == {k \in 1..Len(w.buf) : w.buf[k].tok = "close"}

\* the envelope opened in the top-level header, if any
TopEnvelope == TopContentType(export(w))
TopOpened == Len(TopEnvelope) = 4 /\ TopEnvelope[1] = "multipart/"

\* the parts that open an envelope inside another
InnerOpened ==
    {k \in PartsWritten : /\ Len(w.buf[k].header["Content-Type"][1]) = 4
                          /\ w.buf[k].header["Content-Type"][1][1] = "multipart/"}

\* the parts that hold an attachment, and those that hold a text
AttachmentParts == {k \in PartsWritten : "Content-Disposition" \in DOMAIN w.buf[k].header}
TextParts == PartsWritten \ (InnerOpened \cup AttachmentParts)

\* the boundary of the envelope opened by part k
InnerBoundary(k) == w.buf[k].header["Content-Type"][1][4]

\* the boundaries of the envelopes opened before delimiter k and not closed
\* before it
OpenAt(k) ==
    ((IF TopOpened THEN {TopEnvelope[4]} ELSE {})
     \cup {InnerBoundary(j) : j \in {i \in InnerOpened : i < k}})
    \ {w.buf[c].boundary : c \in {i \in ClosesWritten : i < k}}

\* the boundary of the alternative envelope, at the top or inside
AlternativeBoundaries ==
    (IF TopOpened /\ TopEnvelope[2] = "alternative" THEN {TopEnvelope[4]} ELSE {})
    \cup {InnerBoundary(k) : k \in {i \in InnerOpened :
                                      w.buf[i].header["Content-Type"][1][2] = "alternative"}}

\* C26: at every point of an Export the depth is within 0..2 and is the
\* number of envelopes opened and not closed; a part is created in the
\* envelope opened last and not yet closed; an inner envelope is the
\* alternative one, opened as first part of the mixed one; the alternative
\* envelope is closed after the last textual part and before the first
\* attachment; an envelope is closed once, the inner before the outer; when
\* Export returns every envelope opened is closed and the depth is 0
C26_Nesting ==
    pc \in {"open mixed", "open alternative", "parts", "attachments",
            "exported", "panicked"} =>
        /\ w.depth \in 0..2
        /\ w.depth = Cardinality(OpenAt(Len(w.buf) + 1))
        /\ \A k \in PartsWritten :
              /\ w.buf[k].boundary \in OpenAt(k)
              /\ \A j \in InnerOpened : j < k /\ InnerBoundary(j) \in OpenAt(k) =>
                    w.buf[k].boundary = InnerBoundary(j)
        /\ \A k \in InnerOpened :
              /\ k = 1
              /\ w.buf[k].header["Content-Type"][1][2] = "alternative"
              /\ TopOpened /\ TopEnvelope[2] = "mixed"
              /\ w.buf[k].boundary = TopEnvelope[4]
              /\ InnerBoundary(k) # TopEnvelope[4]
        /\ \A c \in ClosesWritten :
              /\ w.buf[c].boundary \in OpenAt(c)
              /\ \A k \in InnerOpened : InnerBoundary(k) \in OpenAt(c) =>
                    w.buf[c].boundary = InnerBoundary(k)
              /\ w.buf[c].boundary \in AlternativeBoundaries =>
                    /\ \A k \in TextParts : k < c
                    /\ \A k \in AttachmentParts : k > c
        /\ \A k \in AttachmentParts : OpenAt(k) \cap AlternativeBoundaries = {}
        /\ \A k \in TextParts :
              AlternativeBoundaries # {} => w.buf[k].boundary \in AlternativeBoundaries
        /\ pc \in {"attachments", "exported"} =>
              /\ OpenAt(Len(w.buf) + 1) \cap AlternativeBoundaries = {}
              /\ Cardinality(TextParts) \in {0, Len(msg.parts)}
        /\ pc = "exported" =>
              /\ w.depth = 0
              /\ Cardinality(ClosesWritten) =
                    Cardinality(InnerOpened) + (IF TopOpened THEN 1 ELSE 0)

\* a message of two textual parts and two attachments has been exported:
\* two envelopes were opened and closed, the alternative one between the
\* textual parts and the attachments
C26_Witness ==
    /\ pc = "exported"
    /\ Len(msg.parts) = 2 /\ Len(msg.attachments) = 2
    /\ Cardinality(InnerOpened) = 1 /\ Cardinality(ClosesWritten) = 2
    /\ Cardinality(TextParts) = 2 /\ Cardinality(AttachmentParts) = 2
    /\ w.depth = 0

----------------------------------------------------------------------------
(* The streaming decoder against the decoding of the source line by line.   *)

\* the source's lines decoded one after the other, up to and with the first
\* line that fails to decode
DecodedByLine ==
    LET ls == LinesFrom(rsrc, 0)
        j  == FirstBadLine(ls, 1)
    IN DecodedThrough(ls, IF j = 0 THEN Len(ls) ELSE j)

\* C27 as stated: whatever the calls' buffer sizes and whether the source
\* ends with io.EOF or with an error, the bytes delivered so far are the
\* first bytes of the source decoded line by line; when the source ends with
\* io.EOF and Read has returned it, they are the output of Decode on the
\* whole input
C27_DeliversDecoded ==
    pc = "read" =>
        /\ IsPrefix(rd.data, DecodedByLine)
        /\ (q.term = ErrEOF /\ \E c \in DOMAIN rd.rets : rd.rets[c].err = ErrEOF) =>
              rd.data = Decode(rsrc).out

====
